---------------------------- MODULE Spec2Model ----------------------------
(***************************************************************************)
(* State-machine model of the lazyfire terminal UI (package gui): the      *)
(* focus controller, the context resolution and key dispatch, the lazily   *)
(* loaded tree, the filter engine, visual select mode and the bridge       *)
(* between background store calls and the single render/dispatch loop.     *)
(*                                                                         *)
(* Texts (filter buffers, names, paths as displayed) are sequences of      *)
(* one-character strings; a node path is the sequence of its segments.     *)
(***************************************************************************)
EXTENDS Integers, Sequences, FiniteSets, TLC

(***************************************************************************)
(* Bounds of the model.                                                    *)
(***************************************************************************)
\* log entries that may be appended (or reserved by an issued call) in a run
MaxLogged == 3
\* background goroutines in flight at the same time
MaxPending == 2
\* length of a typed filter text
MaxFilterLen == 1
\* details scroll position
MaxScroll == 1

(***************************************************************************)
(* Program constants.                                                      *)
(***************************************************************************)
\* logCommand keeps only the last 10 commands
LogCapacity == 10
\* ListDocuments(..., 50)
ListLimit == 50

None == "none"

\* a value that may be absent (a nil pointer, map or interface): << >> or <<v>>
Nil == << >>
Some(v) == <<v>>

(***************************************************************************)
(* Generic helpers.                                                        *)
(***************************************************************************)
Min(a, b) == IF a < b THEN a ELSE b
Max(a, b) == IF a > b THEN a ELSE b

Last(s) == s[Len(s)]

\* s[lo..hi] as Go's s[lo-1:hi]; empty when hi < lo
Slice(s, lo, hi) == IF hi < lo THEN << >> ELSE SubSeq(s, lo, hi)

(***************************************************************************)
(* Texts.                                                                  *)
(***************************************************************************)
\* strings.ToLower on the characters the model uses
ToLowerChar(ch) ==
    CASE ch = "A" -> "a"
      [] ch = "B" -> "b"
      [] ch = "F" -> "f"
      [] ch = "O" -> "o"
      [] ch = "P" -> "p"
      [] ch = "Q" -> "q"
      [] ch = "E" -> "e"
      [] ch = "I" -> "i"
      [] ch = "L" -> "l"
      [] ch = "N" -> "n"
      [] ch = "R" -> "r"
      [] ch = "S" -> "s"
      [] ch = "T" -> "t"
      [] ch = "U" -> "u"
      [] ch = "Y" -> "y"
      [] OTHER -> ch

ToLower(text) == [i \in 1..Len(text) |-> ToLowerChar(text[i])]

\* strings.Contains
Contains(text, sub) ==
    \E i \in 0..(Len(text) - Len(sub)) :
        Slice(text, i + 1, i + Len(sub)) = sub

\* the slash-delimited text of a path
RECURSIVE PathText(_)
PathText(path) ==
    IF path = << >> THEN << >>
    ELSE IF Len(path) = 1 THEN <<path[1]>>
    ELSE <<path[1], "/">> \o PathText(Tail(path))

\* a match that compares the letters as they are
MatchesFilterExact(text, filter) ==
    IF filter = << >> THEN TRUE
    ELSE Contains(text, filter)

\* MatchesFilter checks if text contains the filter string (case-insensitive)
MatchesFilter(text, filter) ==
    IF filter = << >> THEN TRUE
    ELSE Contains(ToLower(text), ToLower(filter))


(***************************************************************************)
(* The external store (a fixed hierarchy; every call may also fail).       *)
(***************************************************************************)
Project(id, name) == [ID |-> id, DisplayName |-> name]

StoreProjects == <<Project(<<"p">>, <<"P">>), Project(<<"q">>, <<"Q">>)>>

Collection(name) == [Name |-> <<name>>, Path |-> <<name>>]

\* ListCollections: project p holds collections c and d, project q only d
StoreCollections(projectID) ==
    IF projectID = <<"p">> THEN <<Collection("c"), Collection("d")>>
    ELSE <<Collection("d")>>

Document(collPath, id) == [ID |-> <<id>>, Path |-> collPath \o <<id>>]

\* ListDocuments(collectionPath): c and c/a/o hold a and b, d holds a,
\* d/a/o is empty
StoreDocuments(collPath) ==
    IF collPath[1] = "c" THEN <<Document(collPath, "a"), Document(collPath, "b")>>
    ELSE IF Len(collPath) = 1 THEN <<Document(collPath, "a")>>
    ELSE << >>

\* ListSubcollections(documentPath): the top-level documents named a hold
\* one subcollection o
StoreSubcollections(docPath) ==
    IF Last(docPath) = "a" /\ Len(docPath) = 2
    THEN <<[Name |-> <<"o">>, Path |-> docPath \o <<"o">>]>>
    ELSE << >>

\* GetDocument(documentPath).Data: the fields of the document
DocFields(docPath) == <<"fields", docPath>>

\* the data shown for one document
StoreDocData(docPath) ==
    [kind |-> "document", docs |-> (docPath :> DocFields(docPath))]

(***************************************************************************)
(* State.                                                                  *)
(***************************************************************************)
VARIABLES
    \* panel focus
    currentColumn, previousColumn,
    \* popups
    helpOpen, helpPopup, modalOpen,
    \* projects and collections panels
    projects, selectedProjectIndex, currentProject, currentProjectInfo,
    collections, selectedCollectionIdx, currentCollection,
    \* tree panel
    treeNodes, selectedTreeIdx, treeLoading,
    \* details panel and document cache
    currentDocPath, currentDocData, docCache, detailsScrollPos,
    cachedDetailsDocPath,
    \* filter engine
    filterInputActive, filterInputText, filterInputPanel, filterCursorPos,
    projectsFilter, collectionsFilter, treeFilter, detailsFilter,
    \* visual select mode
    selectMode, selectStartIdx, selectedDocs,
    \* query builder
    queryModalOpen, querySelectOpen, queryEditMode, queryCollection,
    queryNodeIdx, queryFilters, queryOrderBy, queryOrderDir, queryLimit,
    queryActiveRow, queryActiveCol, queryResultMode,
    queryEditBuffer, querySelectItems, querySelectIdx, querySelectCallback,
    \* activity log
    commandHistory,
    \* the store client's current project, background goroutines in flight,
    \* the queue of posted updates, and the loop thread's position
    clientProject, tasks, updates, loop,
    \* whether the main loop is running, and the log budget used so far
    running, logged,
    \* observation: the last key and the context it was resolved in, the
    \* handlers the dispatcher invoked for it, the UI state before the user
    \* action whose call has just been reported as failed, the fields the
    \* last step wrote from a goroutine, the panel that had the focus when
    \* details was entered, and the UI state before the last user action
    \* while its call is the only thing that happened since
    lastKey, lastContext, lastRan, lastFailed, taskWrote, enteredFrom,
    lastIssued,
    \* the operand of a function of the program that is applied on its own:
    \* its input and the results so far
    probe

focusVars  == <<currentColumn, previousColumn>>
popupVars  == <<helpOpen, helpPopup, modalOpen>>
projVars   == <<projects, selectedProjectIndex, currentProject,
                currentProjectInfo>>
collVars   == <<collections, selectedCollectionIdx, currentCollection>>
treeVars   == <<treeNodes, selectedTreeIdx, treeLoading>>
docVars    == <<currentDocPath, currentDocData, docCache, detailsScrollPos,
                cachedDetailsDocPath>>
filterVars == <<filterInputActive, filterInputText, filterInputPanel,
                filterCursorPos, projectsFilter, collectionsFilter,
                treeFilter, detailsFilter>>
selVars    == <<selectMode, selectStartIdx, selectedDocs>>
queryVars  == <<queryModalOpen, querySelectOpen, queryEditMode,
                queryCollection, queryNodeIdx, queryFilters, queryOrderBy,
                queryOrderDir, queryLimit, queryActiveRow, queryActiveCol,
                queryResultMode, queryEditBuffer, querySelectItems,
                querySelectIdx, querySelectCallback>>
logVars    == <<commandHistory, logged>>
asyncVars  == <<clientProject, tasks, updates, loop>>
obsVars    == <<lastKey, lastContext, lastRan, lastFailed, taskWrote,
                enteredFrom, lastIssued>>

guiVars == <<focusVars, popupVars, projVars, collVars, treeVars, docVars,
             filterVars, selVars, queryVars, logVars, asyncVars, running,
             obsVars>>

vars == <<guiVars, probe>>

(***************************************************************************)
(* The Gui struct as a value: handlers are state transformers on it, so    *)
(* that a handler calling another handler is function composition.         *)
(***************************************************************************)
G ==
    [currentColumn |-> currentColumn, previousColumn |-> previousColumn,
     helpOpen |-> helpOpen, helpPopup |-> helpPopup, modalOpen |-> modalOpen,
     projects |-> projects, selectedProjectIndex |-> selectedProjectIndex,
     currentProject |-> currentProject,
     currentProjectInfo |-> currentProjectInfo,
     collections |-> collections,
     selectedCollectionIdx |-> selectedCollectionIdx,
     currentCollection |-> currentCollection,
     treeNodes |-> treeNodes, selectedTreeIdx |-> selectedTreeIdx,
     treeLoading |-> treeLoading,
     currentDocPath |-> currentDocPath, currentDocData |-> currentDocData,
     docCache |-> docCache, detailsScrollPos |-> detailsScrollPos,
     cachedDetailsDocPath |-> cachedDetailsDocPath,
     filterInputActive |-> filterInputActive,
     filterInputText |-> filterInputText,
     filterInputPanel |-> filterInputPanel,
     filterCursorPos |-> filterCursorPos,
     projectsFilter |-> projectsFilter,
     collectionsFilter |-> collectionsFilter,
     treeFilter |-> treeFilter, detailsFilter |-> detailsFilter,
     selectMode |-> selectMode, selectStartIdx |-> selectStartIdx,
     selectedDocs |-> selectedDocs,
     queryModalOpen |-> queryModalOpen, querySelectOpen |-> querySelectOpen,
     queryEditMode |-> queryEditMode, queryCollection |-> queryCollection,
     queryNodeIdx |-> queryNodeIdx, queryFilters |-> queryFilters,
     queryOrderBy |-> queryOrderBy, queryOrderDir |-> queryOrderDir,
     queryLimit |-> queryLimit, queryActiveRow |-> queryActiveRow,
     queryActiveCol |-> queryActiveCol, queryResultMode |-> queryResultMode,
     queryEditBuffer |-> queryEditBuffer, querySelectItems |-> querySelectItems,
     querySelectIdx |-> querySelectIdx,
     querySelectCallback |-> querySelectCallback,
     commandHistory |-> commandHistory,
     clientProject |-> clientProject, tasks |-> tasks, updates |-> updates,
     loop |-> loop, running |-> running, logged |-> logged,
     lastKey |-> lastKey, lastContext |-> lastContext, lastRan |-> lastRan,
     lastFailed |-> lastFailed, taskWrote |-> taskWrote,
     enteredFrom |-> enteredFrom, lastIssued |-> lastIssued]

\* the next state is g
Commit(g) ==
    /\ currentColumn' = g.currentColumn
    /\ previousColumn' = g.previousColumn
    /\ helpOpen' = g.helpOpen
    /\ helpPopup' = g.helpPopup
    /\ modalOpen' = g.modalOpen
    /\ projects' = g.projects
    /\ selectedProjectIndex' = g.selectedProjectIndex
    /\ currentProject' = g.currentProject
    /\ currentProjectInfo' = g.currentProjectInfo
    /\ collections' = g.collections
    /\ selectedCollectionIdx' = g.selectedCollectionIdx
    /\ currentCollection' = g.currentCollection
    /\ treeNodes' = g.treeNodes
    /\ selectedTreeIdx' = g.selectedTreeIdx
    /\ treeLoading' = g.treeLoading
    /\ currentDocPath' = g.currentDocPath
    /\ currentDocData' = g.currentDocData
    /\ docCache' = g.docCache
    /\ detailsScrollPos' = g.detailsScrollPos
    /\ cachedDetailsDocPath' = g.cachedDetailsDocPath
    /\ filterInputActive' = g.filterInputActive
    /\ filterInputText' = g.filterInputText
    /\ filterInputPanel' = g.filterInputPanel
    /\ filterCursorPos' = g.filterCursorPos
    /\ projectsFilter' = g.projectsFilter
    /\ collectionsFilter' = g.collectionsFilter
    /\ treeFilter' = g.treeFilter
    /\ detailsFilter' = g.detailsFilter
    /\ selectMode' = g.selectMode
    /\ selectStartIdx' = g.selectStartIdx
    /\ selectedDocs' = g.selectedDocs
    /\ queryModalOpen' = g.queryModalOpen
    /\ querySelectOpen' = g.querySelectOpen
    /\ queryEditMode' = g.queryEditMode
    /\ queryCollection' = g.queryCollection
    /\ queryNodeIdx' = g.queryNodeIdx
    /\ queryFilters' = g.queryFilters
    /\ queryOrderBy' = g.queryOrderBy
    /\ queryOrderDir' = g.queryOrderDir
    /\ queryLimit' = g.queryLimit
    /\ queryActiveRow' = g.queryActiveRow
    /\ queryActiveCol' = g.queryActiveCol
    /\ queryResultMode' = g.queryResultMode
    /\ queryEditBuffer' = g.queryEditBuffer
    /\ querySelectItems' = g.querySelectItems
    /\ querySelectIdx' = g.querySelectIdx
    /\ querySelectCallback' = g.querySelectCallback
    /\ commandHistory' = g.commandHistory
    /\ clientProject' = g.clientProject
    /\ tasks' = g.tasks
    /\ updates' = g.updates
    /\ loop' = g.loop
    /\ running' = g.running
    /\ logged' = g.logged
    /\ lastKey' = g.lastKey
    /\ lastContext' = g.lastContext
    /\ lastRan' = g.lastRan
    /\ lastFailed' = g.lastFailed
    /\ taskWrote' = g.taskWrote
    /\ enteredFrom' = g.enteredFrom
    /\ lastIssued' = g.lastIssued
    /\ probe' = probe

(***************************************************************************)
(* Contexts and the binding table.                                         *)
(***************************************************************************)
ContextNormal == "normal"
ContextFilter == "filter"
ContextHelp == "help"
ContextModal == "modal"
ContextSelect == "select"
ContextQuery == "query"
ContextQuerySelect == "querySelect"

Contexts == {ContextNormal, ContextFilter, ContextHelp, ContextModal,
             ContextSelect, ContextQuery, ContextQuerySelect}

\* getContext with the branches swapped (select mode tested before filter input)
getContextSelectFirst(g) ==
    IF g.helpOpen THEN ContextHelp
    ELSE IF g.modalOpen THEN ContextModal
    ELSE IF g.selectMode THEN ContextSelect
    ELSE IF g.filterInputActive THEN ContextFilter
    ELSE ContextNormal

\* getContext returns the current UI context
getContext(g) ==
    IF g.helpOpen THEN ContextHelp
    ELSE IF g.modalOpen THEN ContextModal
    ELSE IF g.filterInputActive THEN ContextFilter
    ELSE IF g.selectMode THEN ContextSelect
    ELSE ContextNormal

\* The two query contexts are used by the binding table but resolved by code
\* that is not part of the sources: the query builder comes right after the
\* command modal and before its option popup.
queryContext(g) ==
    IF g.queryModalOpen THEN ContextQuery
    ELSE IF g.querySelectOpen THEN ContextQuerySelect
    ELSE None

\* the context a key is resolved in
resolveContext(g) ==
    LET ctx == getContext(g) IN
    IF ctx \in {ContextHelp, ContextModal} THEN ctx
    ELSE IF queryContext(g) # None THEN queryContext(g)
    ELSE ctx

\* a handler: a method of Gui, or a closure over a character
H(fn) == [fn |-> fn, ch |-> ""]
HC(fn, ch) == [fn |-> fn, ch |-> ch]

\* characters registered by the filterChars loop that the model types
FilterChars == {"a", "b", "o"}

\* the characters of the filterChars loop that are keys of the model: those
\* typed into filters and d, which removes a filter in the query builder
TypedChars == FilterChars \cup {"d"}

\* a left click, by the view under the pointer
MouseKeys == {"MouseLeft.helpModal", "MouseLeft.projects",
              "MouseLeft.collections", "MouseLeft.tree", "MouseLeft.details",
              "MouseLeft.commands", "MouseLeft.help", "MouseLeft.background"}

Keys == {"CtrlC", "q", "Esc", "?", "@", "ArrowUp", "ArrowDown", "ArrowLeft",
         "ArrowRight", "j", "k", "h", "l", "Tab", "Space", "Enter", "/",
         "Backspace", "Backspace2", "F", "c", "s", "r", "v", "e"}
        \cup TypedChars \cup MouseKeys

Bind(key, handler, contexts) ==
    [Key |-> key, Handler |-> handler, GetDisabledReason |-> "",
     Contexts |-> contexts]

NoContexts == [c \in {} |-> H("")]

\* Contexts of the keys that type into the filter and are blocked by popups
InsertOrBlock(fn, ch) ==
    (ContextFilter :> H(fn)) @@ (ContextHelp :> H("blockAction"))
    @@ (ContextModal :> H("blockAction"))
    @@ (ContextQuery :> HC("queryInsertChar", ch))

MoveContexts(filterFn, queryFn) ==
    (ContextFilter :> H(filterFn)) @@ (ContextHelp :> H("blockAction"))
    @@ (ContextModal :> H("blockAction")) @@ (ContextQuery :> H(queryFn))

CursorContexts(helpFn, selectFn, queryFn, querySelectFn) ==
    (ContextHelp :> H(helpFn)) @@ (ContextModal :> H("blockAction"))
    @@ (ContextSelect :> H(selectFn)) @@ (ContextQuery :> H(queryFn))
    @@ (ContextQuerySelect :> H(querySelectFn))

MouseHandler(key) ==
    CASE key = "MouseLeft.helpModal" -> H("doHelpClick")
      [] key = "MouseLeft.projects" -> H("doProjectsClick")
      [] key = "MouseLeft.collections" -> H("doCollectionsClick")
      [] key = "MouseLeft.tree" -> H("doTreeClick")
      [] key = "MouseLeft.details" -> H("doDetailsClick")
      [] OTHER -> H("doOutsideClick")

\* the binding registered for a key (global, navigation, filter, action and
\* mouse bindings)
Binding(key) ==
    CASE key = "CtrlC" -> Bind(key, H("doQuit"), NoContexts)
      [] key = "q" -> Bind(key, H("doQuit"),
            (ContextFilter :> H("filterInsertQ"))
            @@ (ContextHelp :> H("blockAction"))
            @@ (ContextModal :> H("blockAction"))
            @@ (ContextQuery :> HC("queryInsertChar", "q")))
      [] key = "Esc" -> Bind(key, H("doEscape"),
            (ContextQuery :> H("queryClose"))
            @@ (ContextQuerySelect :> H("querySelectClose")))
      [] key = "?" -> Bind(key, H("doToggleHelp"),
            (ContextFilter :> H("filterInsertQuestion"))
            @@ (ContextQuery :> HC("queryInsertChar", "?")))
      [] key = "@" -> Bind(key, H("doToggleModal"),
            (ContextFilter :> H("filterInsertAt"))
            @@ (ContextQuery :> HC("queryInsertChar", "@")))
      [] key = "ArrowUp" -> Bind(key, H("doCursorUp"),
            CursorContexts("helpMoveUp", "selectMoveUp", "queryMoveUp",
                           "querySelectMoveUp"))
      [] key = "ArrowDown" -> Bind(key, H("doCursorDown"),
            CursorContexts("helpMoveDown", "selectMoveDown", "queryMoveDown",
                           "querySelectMoveDown"))
      [] key = "ArrowLeft" -> Bind(key, H("doColumnLeft"),
            MoveContexts("filterCursorLeft", "queryMoveLeft"))
      [] key = "ArrowRight" -> Bind(key, H("doColumnRight"),
            MoveContexts("filterCursorRight", "queryMoveRight"))
      [] key = "j" -> Bind(key, H("doCursorDown"),
            (ContextFilter :> H("filterInsertJ"))
            @@ CursorContexts("helpMoveDown", "selectMoveDown", "queryKeyJ",
                              "querySelectMoveDown"))
      [] key = "k" -> Bind(key, H("doCursorUp"),
            (ContextFilter :> H("filterInsertK"))
            @@ CursorContexts("helpMoveUp", "selectMoveUp", "queryKeyK",
                              "querySelectMoveUp"))
      [] key = "h" -> Bind(key, H("doColumnLeft"),
            MoveContexts("filterInsertH", "queryKeyH"))
      [] key = "l" -> Bind(key, H("doColumnRight"),
            MoveContexts("filterInsertL", "queryKeyL"))
      [] key = "Tab" -> Bind(key, H("doNextColumn"),
            MoveContexts("blockAction", "queryNextField"))
      [] key = "Space" -> Bind(key, H("doSpace"),
            MoveContexts("filterInsertSpace", "blockAction")
            @@ (ContextSelect :> H("doFetchSelectedDocs")))
      [] key = "Enter" -> Bind(key, H("doEnter"),
            (ContextFilter :> H("filterCommit"))
            @@ (ContextHelp :> H("helpClose"))
            @@ (ContextQuery :> H("queryEnter"))
            @@ (ContextQuerySelect :> H("querySelectConfirm")))
      [] key = "/" -> Bind(key, H("doStartFilter"),
            InsertOrBlock("filterInsertSlash", "/"))
      [] key \in {"Backspace", "Backspace2"} ->
            Bind(key, H("doFilterBackspace"),
                 (ContextQuery :> H("queryBackspace")))
      [] key \in TypedChars -> Bind(key, HC("makeFilterCharAction", key),
            (ContextQuery :> HC("queryInsertChar", key)))
      [] key = "F" -> Bind(key, H("doOpenQuery"),
            InsertOrBlock("filterInsertUpperF", "F"))
      [] key = "c" -> Bind(key, H("doCopyJSON"),
            InsertOrBlock("filterInsertC", "c"))
      [] key = "s" -> Bind(key, H("doSaveJSON"),
            InsertOrBlock("filterInsertS", "s"))
      [] key = "r" -> Bind(key, H("doRefresh"),
            InsertOrBlock("filterInsertR", "r"))
      [] key = "v" -> Bind(key, H("doToggleSelectMode"),
            InsertOrBlock("filterInsertV", "v")
            @@ (ContextSelect :> H("doToggleSelectMode")))
      [] key = "e" -> Bind(key, H("doEditInEditor"),
            InsertOrBlock("filterInsertE", "e"))
      [] OTHER -> Bind(key, MouseHandler(key), NoContexts)

\* wrapHandler without the early return: the default also runs after an override
wrapHandlerFallThrough(b, ctx) ==
    (IF ctx \in DOMAIN b.Contexts THEN <<b.Contexts[ctx]>> ELSE << >>)
    \o (IF b.GetDisabledReason # "" THEN << >> ELSE <<b.Handler>>)

\* wrapHandler: the handlers a key press invokes in context ctx, in order
wrapHandler(b, ctx) ==
    IF ctx \in DOMAIN b.Contexts THEN <<b.Contexts[ctx]>>
    ELSE IF b.GetDisabledReason # "" THEN << >>
    ELSE <<b.Handler>>

(***************************************************************************)
(* Helpers of the Gui.                                                     *)
(***************************************************************************)
\* s[i] of a Go slice (indices from 0)
At(s, i) == s[i + 1]

\* logCommand: append, keep only the last 10 commands
logCommandKeepFirst(g, command, status) ==
    LET added == g.commandHistory
                 \o <<[command |-> command, status |-> status]>>
    IN [g EXCEPT !.commandHistory =
            IF Len(added) > LogCapacity
            THEN <<Head(added)>> \o Tail(Tail(added)) ELSE added]

logCommand(g, command, status) ==
    LET added == g.commandHistory
                 \o <<[command |-> command, status |-> status]>>
    IN [g EXCEPT !.commandHistory =
            IF Len(added) > LogCapacity THEN Tail(added) ELSE added]

\* the filter shown for a panel: the input text while typing on that panel,
\* otherwise the committed filter
ActiveFilter(g, panel, committed) ==
    IF g.filterInputActive /\ g.filterInputPanel = panel
    THEN g.filterInputText ELSE committed

getFilteredProjects(g) ==
    LET filter == ActiveFilter(g, "projects", g.projectsFilter) IN
    IF filter = << >> THEN g.projects
    ELSE SelectSeq(g.projects,
            LAMBDA p : MatchesFilter(p.DisplayName, filter)
                       \/ MatchesFilter(p.ID, filter))

getFilteredCollections(g) ==
    LET filter == ActiveFilter(g, "collections", g.collectionsFilter) IN
    IF filter = << >> THEN g.collections
    ELSE SelectSeq(g.collections, LAMBDA c : MatchesFilter(c.Name, filter))

getFilteredTreeNodes(g) ==
    LET filter == ActiveFilter(g, "tree", g.treeFilter) IN
    IF filter = << >> THEN g.treeNodes
    ELSE SelectSeq(g.treeNodes,
            LAMBDA n : MatchesFilter(n.Name, filter)
                       \/ MatchesFilter(PathText(n.Path), filter))

getDetailsFilter(g) == ActiveFilter(g, "details", g.detailsFilter)

getFilterForPanel(g, panel) ==
    CASE panel = "projects" -> g.projectsFilter
      [] panel = "collections" -> g.collectionsFilter
      [] panel = "tree" -> g.treeFilter
      [] panel = "details" -> g.detailsFilter
      [] OTHER -> << >>

hasActiveFilter(g, panel) == getFilterForPanel(g, panel) # << >>

\* getOriginalTreeNodeIndex maps a filtered index back to the index in
\* treeNodes: the first node with the same path, -1 if none
getOriginalTreeNodeIndex(g, filteredIdx) ==
    LET filtered == getFilteredTreeNodes(g) IN
    IF filteredIdx < 0 \/ filteredIdx >= Len(filtered) THEN -1
    ELSE LET targetPath == At(filtered, filteredIdx).Path
             hits == {i \in 0..(Len(g.treeNodes) - 1) :
                         At(g.treeNodes, i).Path = targetPath}
         IN IF hits = {} THEN -1
            ELSE CHOOSE i \in hits : \A j \in hits : i <= j

\* the index after the last node below idx (nodes deeper than the node at idx)
RECURSIVE SubtreeEnd(_, _, _)
SubtreeEnd(nodes, depth, endIdx) ==
    IF endIdx < Len(nodes) /\ At(nodes, endIdx).Depth > depth
    THEN SubtreeEnd(nodes, depth, endIdx + 1)
    ELSE endIdx

\* a collapse that removes only the one node after idx
collapseNodeOne(nodes, idx) ==
    IF idx >= Len(nodes) THEN nodes
    ELSE IF idx + 1 < Len(nodes) /\ At(nodes, idx + 1).Depth > At(nodes, idx).Depth
         THEN Slice(nodes, 1, idx + 1) \o Slice(nodes, idx + 3, Len(nodes))
         ELSE nodes

\* collapseNode: remove the run of deeper nodes that follows idx
collapseNode(nodes, idx) ==
    IF idx >= Len(nodes) THEN nodes
    ELSE LET endIdx == SubtreeEnd(nodes, At(nodes, idx).Depth, idx + 1) IN
         IF endIdx > idx + 1
         THEN Slice(nodes, 1, idx + 1) \o Slice(nodes, endIdx + 1, Len(nodes))
         ELSE nodes

TreeNode(path, name, type, depth) ==
    [Path |-> path, Name |-> name, Type |-> type, Depth |-> depth,
     HasChildren |-> TRUE, Expanded |-> FALSE]

\* the child nodes built from a list of documents or of subcollections
DocNodes(docs, depth) ==
    [i \in 1..Len(docs) |-> TreeNode(docs[i].Path, docs[i].ID, "document", depth)]

SubNodes(subcols, depth) ==
    [i \in 1..Len(subcols) |->
        TreeNode(subcols[i].Path, subcols[i].Name, "collection", depth)]

\* the splice of selectTreeNode: children go right after nodeIdx, which is
\* then marked expanded
InsertChildren(nodes, nodeIdx, children) ==
    IF nodeIdx < Len(nodes)
    THEN LET newNodes == Slice(nodes, 1, nodeIdx + 1) \o children
                         \o Slice(nodes, nodeIdx + 2, Len(nodes))
         IN [newNodes EXCEPT ![nodeIdx + 1].Expanded = TRUE]
    ELSE nodes

\* setFocus sets the current column
setFocus(g, column) == [g EXCEPT !.currentColumn = column]

(***************************************************************************)
(* Layout: the state it normalises on every pass of the loop.              *)
(***************************************************************************)
\* clamp a selection index to a filtered list
ClampIdx(idx, filtered) ==
    IF Len(filtered) > 0 /\ idx >= Len(filtered) THEN Len(filtered) - 1
    ELSE idx

\* updateDetailsView: a document that is not the rendered one resets the
\* scroll position; without a document the render cache is cleared
updateDetailsView(g) ==
    IF g.currentDocData # Nil
    THEN IF getDetailsFilter(g) # << >> THEN g
         ELSE IF g.cachedDetailsDocPath = Some(g.currentDocPath) THEN g
         ELSE [g EXCEPT !.detailsScrollPos = 0,
                        !.cachedDetailsDocPath = Some(g.currentDocPath)]
    ELSE [g EXCEPT !.cachedDetailsDocPath = Nil]

\* Layout: the four panels are updated in turn
Layout(g) ==
    updateDetailsView(
        [g EXCEPT
            !.selectedProjectIndex = ClampIdx(@, getFilteredProjects(g)),
            !.selectedCollectionIdx = ClampIdx(@, getFilteredCollections(g)),
            !.selectedTreeIdx =
                IF g.treeLoading THEN @
                ELSE ClampIdx(@, getFilteredTreeNodes(g))])

(***************************************************************************)
(* Background goroutines and posted updates.                               *)
(***************************************************************************)
\* the panel state a failed call is compared on (everything but the log)
UIState(g) ==
    [currentColumn |-> g.currentColumn, previousColumn |-> g.previousColumn,
     helpOpen |-> g.helpOpen, modalOpen |-> g.modalOpen,
     projects |-> g.projects,
     selectedProjectIndex |-> g.selectedProjectIndex,
     currentProject |-> g.currentProject,
     collections |-> g.collections,
     selectedCollectionIdx |-> g.selectedCollectionIdx,
     currentCollection |-> g.currentCollection,
     treeNodes |-> g.treeNodes, selectedTreeIdx |-> g.selectedTreeIdx,
     currentDocPath |-> g.currentDocPath,
     currentDocData |-> g.currentDocData,
     selectMode |-> g.selectMode, selectStartIdx |-> g.selectStartIdx,
     selectedDocs |-> g.selectedDocs,
     projectsFilter |-> g.projectsFilter,
     collectionsFilter |-> g.collectionsFilter,
     treeFilter |-> g.treeFilter, detailsFilter |-> g.detailsFilter,
     filterInputActive |-> g.filterInputActive,
     filterInputText |-> g.filterInputText,
     queryModalOpen |-> g.queryModalOpen, queryFilters |-> g.queryFilters,
     queryOrderBy |-> g.queryOrderBy, queryOrderDir |-> g.queryOrderDir,
     queryLimit |-> g.queryLimit]

\* go func() {...}(): a goroutine starts at its first store call
Go(g, task) ==
    [g EXCEPT !.tasks = Append(@, task @@ [fresh |-> TRUE]),
              !.logged = @ + 1]

\* g.g.Update(f): the update is queued for the loop
UpdateFirst(g, update) == [g EXCEPT !.updates = <<update>> \o @]

Update(g, update) == [g EXCEPT !.updates = Append(@, update)]

\* a log entry made by a key handler counts against the log budget
logCommandNow(g, command, status) ==
    [logCommand(g, command, status) EXCEPT !.logged = @ + 1]

(***************************************************************************)
(* Selection handlers (called by the actions).                             *)
(***************************************************************************)
selectProject(g) ==
    LET filtered == getFilteredProjects(g) IN
    IF g.selectedProjectIndex >= Len(filtered) THEN g
    ELSE LET selectedProject == At(filtered, g.selectedProjectIndex) IN
         Go(logCommandNow(g, <<"ListCollections", selectedProject.ID>>,
                          "running"),
            [kind |-> "selectProject", pc |-> "SetCurrentProject",
             projectID |-> selectedProject.ID])

selectCollection(g) ==
    LET filtered == getFilteredCollections(g) IN
    IF g.selectedCollectionIdx >= Len(filtered) THEN g
    ELSE LET collection == At(filtered, g.selectedCollectionIdx)
             g1 == [g EXCEPT !.currentCollection = collection.Name]
         IN Go(logCommandNow(g1, <<"ListDocuments", collection.Name>>,
                             "running"),
               [kind |-> "selectCollection", pc |-> "ListDocuments",
                name |-> collection.Name])

selectTreeNode(g) ==
    LET filtered == getFilteredTreeNodes(g) IN
    IF g.selectedTreeIdx >= Len(filtered) THEN g
    ELSE
    LET selectedNode == At(filtered, g.selectedTreeIdx)
        nodeIdx == getOriginalTreeNodeIndex(g, g.selectedTreeIdx)
    IN
    IF nodeIdx = -1 THEN g
    ELSE IF selectedNode.Type \notin {"document", "collection"} THEN g
    ELSE IF At(g.treeNodes, nodeIdx).Expanded
    THEN [g EXCEPT !.treeNodes =
            [collapseNode(g.treeNodes, nodeIdx)
                EXCEPT ![nodeIdx + 1].Expanded = FALSE]]
    ELSE IF selectedNode.Type = "document"
    THEN Go(logCommandNow(g, <<"GetDocument", selectedNode.Path>>, "running"),
            [kind |-> "expandDocument", pc |-> "GetDocument",
             nodePath |-> selectedNode.Path, nodeName |-> selectedNode.Name,
             nodeDepth |-> selectedNode.Depth, nodeIdx |-> nodeIdx])
    ELSE Go(logCommandNow(g, <<"ListDocuments", selectedNode.Path>>, "running"),
            [kind |-> "expandCollection", pc |-> "ListDocuments",
             nodePath |-> selectedNode.Path, nodeName |-> selectedNode.Name,
             nodeDepth |-> selectedNode.Depth, nodeIdx |-> nodeIdx])

fetchProjectDetails(g) ==
    LET filtered == getFilteredProjects(g) IN
    IF g.selectedProjectIndex >= Len(filtered) THEN g
    ELSE LET project == At(filtered, g.selectedProjectIndex) IN
         Go(logCommandNow(g, <<"GetProjectDetails", project.ID>>, "running"),
            [kind |-> "fetchProjectDetails", pc |-> "GetProjectDetails",
             projectID |-> project.ID])

(***************************************************************************)
(* Help popup.                                                             *)
(***************************************************************************)
PopupItem(isHeader, action) == [IsHeader |-> isHeader, Action |-> action]

\* the items of the help popup for a panel; Action "" is no action
HelpItems(column) ==
    <<PopupItem(TRUE, ""), PopupItem(FALSE, ""), PopupItem(FALSE, ""),
      PopupItem(FALSE, "doSpace"), PopupItem(FALSE, "doStartFilter"),
      PopupItem(FALSE, ""), PopupItem(FALSE, "doRefresh"),
      PopupItem(FALSE, "doToggleModal"), PopupItem(FALSE, ""),
      PopupItem(FALSE, "doQuit"), PopupItem(TRUE, "")>>
    \o CASE column = "projects" ->
              <<PopupItem(FALSE, "doEnter"), PopupItem(FALSE, "doSpace")>>
         [] column = "collections" -> <<PopupItem(FALSE, "doSpace")>>
         [] column = "tree" ->
              <<PopupItem(FALSE, "doSpace"), PopupItem(FALSE, "doCopyJSON"),
                PopupItem(FALSE, "doSaveJSON")>>
         [] OTHER ->
              <<PopupItem(FALSE, ""), PopupItem(FALSE, "doCopyJSON"),
                PopupItem(FALSE, "doSaveJSON")>>

\* findNextSelectable: the next non-header item in a direction, from if none
RECURSIVE findNextSelectable(_, _, _, _)
findNextSelectable(items, from, i, direction) ==
    IF i < 0 \/ i >= Len(items) THEN from
    ELSE IF ~At(items, i).IsHeader THEN i
    ELSE findNextSelectable(items, from, i + direction, direction)

NewPopup(items) ==
    [Items |-> items, SelectedIdx |-> findNextSelectable(items, -1, 0, 1)]

buildHelpPopup(g) ==
    [g EXCEPT !.helpPopup = Some(NewPopup(HelpItems(g.currentColumn)))]

PopupMoveUp(p) ==
    LET newIdx == findNextSelectable(p.Items, p.SelectedIdx,
                                     p.SelectedIdx - 1, -1) IN
    IF newIdx >= 0 THEN [p EXCEPT !.SelectedIdx = newIdx] ELSE p

PopupMoveDown(p) ==
    LET newIdx == findNextSelectable(p.Items, p.SelectedIdx,
                                     p.SelectedIdx + 1, 1) IN
    IF newIdx < Len(p.Items) THEN [p EXCEPT !.SelectedIdx = newIdx] ELSE p

closeHelp(g) == [g EXCEPT !.helpOpen = FALSE, !.helpPopup = Nil]

(***************************************************************************)
(* Actions: the key handlers.                                              *)
(***************************************************************************)
\* doQuit returns ErrQuit: the main loop ends
doQuit(g) == [g EXCEPT !.running = FALSE]

doExitSelectMode(g) == [g EXCEPT !.selectMode = FALSE, !.selectedDocs = {}]

cancelFilterInput(g) ==
    [g EXCEPT !.filterInputActive = FALSE, !.filterInputText = << >>,
              !.filterInputPanel = "", !.filterCursorPos = 0]

clearCurrentFilter(g) ==
    CASE g.currentColumn = "projects" ->
            [g EXCEPT !.projectsFilter = << >>, !.selectedProjectIndex = 0]
      [] g.currentColumn = "collections" ->
            [g EXCEPT !.collectionsFilter = << >>, !.selectedCollectionIdx = 0]
      [] g.currentColumn = "tree" ->
            [g EXCEPT !.treeFilter = << >>, !.selectedTreeIdx = 0]
      [] g.currentColumn = "details" ->
            [g EXCEPT !.detailsFilter = << >>, !.detailsScrollPos = 0]
      [] OTHER -> g

\* doEscape: help popup > command modal > details panel > select mode (only
\* in tree) > filter input > committed filter
doEscape(g) ==
    IF g.helpOpen THEN closeHelp(g)
    ELSE IF g.modalOpen THEN [g EXCEPT !.modalOpen = FALSE]
    ELSE IF g.currentColumn = "details"
    THEN setFocus(g, IF g.previousColumn = "" THEN "tree"
                     ELSE g.previousColumn)
    ELSE IF g.selectMode /\ g.currentColumn = "tree" THEN doExitSelectMode(g)
    ELSE IF g.filterInputActive THEN cancelFilterInput(g)
    ELSE IF hasActiveFilter(g, g.currentColumn) THEN clearCurrentFilter(g)
    ELSE g

doToggleHelp(g) ==
    IF g.helpOpen THEN closeHelp(g)
    ELSE [buildHelpPopup(g) EXCEPT !.helpOpen = TRUE]

doToggleModal(g) == [g EXCEPT !.modalOpen = ~@]

helpMoveUp(g) ==
    IF g.helpPopup # Nil
    THEN [g EXCEPT !.helpPopup = Some(PopupMoveUp(@[1]))] ELSE g

helpMoveDown(g) ==
    IF g.helpPopup # Nil
    THEN [g EXCEPT !.helpPopup = Some(PopupMoveDown(@[1]))] ELSE g

filterCursorLeft(g) ==
    IF g.filterCursorPos > 0 THEN [g EXCEPT !.filterCursorPos = @ - 1] ELSE g

filterCursorRight(g) ==
    IF g.filterCursorPos < Len(g.filterInputText)
    THEN [g EXCEPT !.filterCursorPos = @ + 1] ELSE g

blockAction(g) == g

\* doColumnRight that goes on from the tree to the details panel
doColumnRightIntoDetails(g) ==
    IF g.currentColumn = "details" THEN g
    ELSE setFocus(g, CASE g.currentColumn = "projects" -> "collections"
                       [] g.currentColumn = "collections" -> "tree"
                       [] g.currentColumn = "tree" -> "details"
                       [] OTHER -> "")

doColumnLeft(g) ==
    IF g.currentColumn = "details" THEN g
    ELSE setFocus(g, CASE g.currentColumn = "projects" -> "tree"
                       [] g.currentColumn = "collections" -> "projects"
                       [] g.currentColumn = "tree" -> "collections"
                       [] OTHER -> "")

doColumnRight(g) ==
    IF g.currentColumn = "details" THEN g
    ELSE setFocus(g, CASE g.currentColumn = "projects" -> "collections"
                       [] g.currentColumn = "collections" -> "tree"
                       [] g.currentColumn = "tree" -> "projects"
                       [] OTHER -> "")

doCursorUp(g) ==
    CASE g.currentColumn = "projects" ->
            IF g.selectedProjectIndex > 0
            THEN [g EXCEPT !.selectedProjectIndex = @ - 1,
                           !.currentProjectInfo = Nil]
            ELSE g
      [] g.currentColumn = "collections" ->
            IF g.selectedCollectionIdx > 0
            THEN [g EXCEPT !.selectedCollectionIdx = @ - 1] ELSE g
      [] g.currentColumn = "tree" ->
            IF g.selectedTreeIdx > 0
            THEN [g EXCEPT !.selectedTreeIdx = @ - 1] ELSE g
      [] g.currentColumn = "details" ->
            IF g.detailsScrollPos > 0
            THEN [g EXCEPT !.detailsScrollPos = @ - 1] ELSE g
      [] OTHER -> g

doCursorDown(g) ==
    CASE g.currentColumn = "projects" ->
            IF g.selectedProjectIndex < Len(getFilteredProjects(g)) - 1
            THEN [g EXCEPT !.selectedProjectIndex = @ + 1,
                           !.currentProjectInfo = Nil]
            ELSE g
      [] g.currentColumn = "collections" ->
            IF g.selectedCollectionIdx < Len(getFilteredCollections(g)) - 1
            THEN [g EXCEPT !.selectedCollectionIdx = @ + 1] ELSE g
      [] g.currentColumn = "tree" ->
            IF g.selectedTreeIdx < Len(getFilteredTreeNodes(g)) - 1
            THEN [g EXCEPT !.selectedTreeIdx = @ + 1] ELSE g
      [] g.currentColumn = "details" ->
            [g EXCEPT !.detailsScrollPos = @ + 1]
      [] OTHER -> g

\* doNextColumn - Tab goes to the details panel
doNextColumn(g) ==
    IF g.currentColumn = "details" THEN g
    ELSE setFocus([g EXCEPT !.previousColumn = g.currentColumn], "details")

doSpace(g) ==
    CASE g.currentColumn = "projects" -> selectProject(g)
      [] g.currentColumn = "collections" -> selectCollection(g)
      [] g.currentColumn = "tree" -> selectTreeNode(g)
      [] OTHER -> g

doEnter(g) ==
    CASE g.currentColumn = "projects" -> fetchProjectDetails(g)
      [] g.currentColumn = "tree" ->
            IF g.selectMode /\ g.currentDocData # Nil
            THEN setFocus([g EXCEPT !.previousColumn = g.currentColumn],
                          "details")
            ELSE LET g1 == selectTreeNode(g) IN
                 setFocus([g1 EXCEPT !.previousColumn = g1.currentColumn],
                          "details")
      [] OTHER -> g

doStartFilter(g) ==
    IF g.filterInputActive THEN g
    ELSE LET g1 == CASE g.currentColumn = "projects" ->
                            [g EXCEPT !.projectsFilter = << >>]
                     [] g.currentColumn = "collections" ->
                            [g EXCEPT !.collectionsFilter = << >>]
                     [] g.currentColumn = "tree" ->
                            [g EXCEPT !.treeFilter = << >>]
                     [] g.currentColumn = "details" ->
                            [g EXCEPT !.detailsFilter = << >>]
                     [] OTHER -> g
         IN [g1 EXCEPT !.filterInputActive = TRUE,
                       !.filterInputPanel = g.currentColumn,
                       !.filterInputText = << >>, !.filterCursorPos = 0]

doFilterBackspaceAtCursor(g) ==
    IF ~g.filterInputActive THEN g
    ELSE IF g.filterCursorPos > 0 /\ Len(g.filterInputText) > 0
    THEN [g EXCEPT !.filterInputText =
                        Slice(@, 1, g.filterCursorPos)
                        \o Slice(@, g.filterCursorPos + 2, Len(@)),
                   !.filterCursorPos = @ - 1]
    ELSE g

doFilterBackspace(g) ==
    IF ~g.filterInputActive THEN g
    ELSE IF g.filterCursorPos > 0 /\ Len(g.filterInputText) > 0
    THEN [g EXCEPT !.filterInputText =
                        Slice(@, 1, g.filterCursorPos - 1)
                        \o Slice(@, g.filterCursorPos + 1, Len(@)),
                   !.filterCursorPos = @ - 1]
    ELSE g

\* insertFilterChar inserts a character at the cursor position
insertFilterChar(g, ch) ==
    [g EXCEPT !.filterInputText =
                    Slice(@, 1, g.filterCursorPos) \o <<ch>>
                    \o Slice(@, g.filterCursorPos + 1, Len(@)),
              !.filterCursorPos = @ + 1]

makeFilterCharAction(g, ch) ==
    IF ~g.filterInputActive THEN g ELSE insertFilterChar(g, ch)

\* a commit that leaves the panel's index where it is
commitFilterKeepsIndex(g) ==
    LET filterText == g.filterInputText
        panel == g.filterInputPanel
        g1 == CASE panel = "projects" -> [g EXCEPT !.projectsFilter = filterText]
                [] panel = "collections" -> [g EXCEPT !.collectionsFilter = filterText]
                [] panel = "tree" -> [g EXCEPT !.treeFilter = filterText]
                [] panel = "details" -> [g EXCEPT !.detailsFilter = filterText]
                [] OTHER -> g
    IN cancelFilterInput(g1)

commitFilter(g) ==
    LET filterText == g.filterInputText
        panel == g.filterInputPanel
        g1 == CASE panel = "projects" ->
                    [g EXCEPT !.projectsFilter = filterText,
                              !.selectedProjectIndex = 0]
                [] panel = "collections" ->
                    [g EXCEPT !.collectionsFilter = filterText,
                              !.selectedCollectionIdx = 0]
                [] panel = "tree" ->
                    [g EXCEPT !.treeFilter = filterText,
                              !.selectedTreeIdx = 0]
                [] panel = "details" ->
                    [g EXCEPT !.detailsFilter = filterText,
                              !.detailsScrollPos = 0]
                [] OTHER -> g
    IN cancelFilterInput(g1)

\* Mouse click handlers; line is the clicked line of the view
doHelpClick(g, line) ==
    IF g.helpPopup = Nil THEN g
    ELSE LET p == g.helpPopup[1] IN
         IF line >= 0 /\ line < Len(p.Items) /\ ~At(p.Items, line).IsHeader
         THEN [g EXCEPT !.helpPopup = Some([p EXCEPT !.SelectedIdx = line])]
         ELSE g

doProjectsClick(g, line) ==
    IF g.helpOpen THEN closeHelp(g)
    ELSE LET g1 == [g EXCEPT !.currentColumn = "projects"] IN
         IF line >= 0 /\ line < Len(getFilteredProjects(g1))
         THEN [g1 EXCEPT !.selectedProjectIndex = line,
                         !.currentProjectInfo = Nil]
         ELSE g1

doCollectionsClick(g, line) ==
    IF g.helpOpen THEN closeHelp(g)
    ELSE LET g1 == [g EXCEPT !.currentColumn = "collections"] IN
         IF line >= 0 /\ line < Len(getFilteredCollections(g1))
         THEN [g1 EXCEPT !.selectedCollectionIdx = line]
         ELSE g1

doTreeClick(g, line) ==
    IF g.helpOpen THEN closeHelp(g)
    ELSE LET g1 == [g EXCEPT !.currentColumn = "tree"] IN
         IF line >= 0 /\ line < Len(getFilteredTreeNodes(g1))
         THEN [g1 EXCEPT !.selectedTreeIdx = line]
         ELSE g1

doDetailsClick(g) ==
    IF g.helpOpen THEN closeHelp(g)
    ELSE [g EXCEPT !.currentColumn = "details"]

doOutsideClick(g) == IF g.helpOpen THEN closeHelp(g) ELSE g

(***************************************************************************)
(* Select mode.                                                            *)
(***************************************************************************)
\* the documents of the filtered view in the range start..end
SelectRange(filtered, start, end) ==
    {i \in Min(start, end)..Max(start, end) :
        i < Len(filtered) /\ At(filtered, i).Type = "document"}

doToggleSelectMode(g) ==
    IF g.currentColumn # "tree" THEN g
    ELSE IF g.selectMode
    THEN [g EXCEPT !.selectMode = FALSE, !.selectedDocs = {}]
    ELSE LET filtered == getFilteredTreeNodes(g) IN
         [g EXCEPT !.selectMode = TRUE,
                   !.selectStartIdx = g.selectedTreeIdx,
                   !.selectedDocs =
                        IF g.selectedTreeIdx < Len(filtered)
                           /\ At(filtered, g.selectedTreeIdx).Type = "document"
                        THEN {g.selectedTreeIdx} ELSE {}]

\* updateSelectRange: selectedDocs is the range from selectStartIdx to
\* selectedTreeIdx
updateSelectRangeToCursor(g) ==
    [g EXCEPT !.selectedDocs =
        SelectRange(getFilteredTreeNodes(g), g.selectedTreeIdx,
                    g.selectedTreeIdx)]

updateSelectRange(g) ==
    [g EXCEPT !.selectedDocs =
        SelectRange(getFilteredTreeNodes(g), g.selectStartIdx,
                    g.selectedTreeIdx)]

selectMoveDown(g) ==
    IF ~g.selectMode \/ g.currentColumn # "tree" THEN doCursorDown(g)
    ELSE IF g.selectedTreeIdx < Len(getFilteredTreeNodes(g)) - 1
    THEN updateSelectRange([g EXCEPT !.selectedTreeIdx = @ + 1])
    ELSE g

selectMoveUp(g) ==
    IF ~g.selectMode \/ g.currentColumn # "tree" THEN doCursorUp(g)
    ELSE IF g.selectedTreeIdx > 0
    THEN updateSelectRange([g EXCEPT !.selectedTreeIdx = @ - 1])
    ELSE g

\* "%d documents selected"
SelectedText(n) ==
    CASE n = 1 -> <<"1 documents selected">>
      [] n = 2 -> <<"2 documents selected">>
      [] n = 3 -> <<"3 documents selected">>
      [] OTHER -> <<"N documents selected">>

\* the combined document shown for a batch
Combined(data) == [kind |-> "combined", docs |-> data]

mergeSelectedDocsAllOrNothing(g, combined, toFetch, results) ==
    LET RECURSIVE Errors(_, _)
        Errors(h, i) ==
            IF i > Len(toFetch) THEN h
            ELSE IF results[i] = "error"
            THEN Errors(logCommand(h, <<"Error fetching", toFetch[i]>>,
                                   "error"), i + 1)
            ELSE Errors(h, i + 1)
    IN Errors(g, 1)

\* the tail of doFetchSelectedDocs, once every fetch is in: results[i] is
\* the outcome for toFetch[i]
mergeSelectedDocs(g, combined, toFetch, results) ==
    LET RECURSIVE Merge(_, _, _)
        Merge(h, comb, i) ==
            IF i > Len(toFetch) THEN <<h, comb>>
            ELSE IF results[i] = "error"
            THEN Merge(logCommand(h, <<"Error fetching", toFetch[i]>>,
                                  "error"), comb, i + 1)
            ELSE Merge([h EXCEPT !.docCache =
                            (toFetch[i] :> DocFields(toFetch[i])) @@ @],
                       (toFetch[i] :> DocFields(toFetch[i])) @@ comb,
                       i + 1)
        merged == Merge(g, combined, 1)
        g1 == merged[1]
        all == merged[2]
    IN IF DOMAIN all # {}
       THEN logCommand([g1 EXCEPT !.currentDocData = Some(Combined(all)),
                                  !.currentDocPath =
                                      SelectedText(Cardinality(DOMAIN all)),
                                  !.cachedDetailsDocPath = Nil],
                       <<"Loaded documents", Cardinality(DOMAIN all)>>,
                       "success")
       ELSE g1

\* doFetchSelectedDocs up to wg.Wait(); toFetch is the order in which the
\* map of selected rows was walked
doFetchSelectedDocs(g, toFetch) ==
    IF ~g.selectMode \/ g.selectedDocs = {} THEN doSpace(g)
    ELSE
    LET filtered == getFilteredTreeNodes(g)
        paths == {At(filtered, idx).Path :
                    idx \in {i \in g.selectedDocs :
                                i < Len(filtered)
                                /\ At(filtered, i).Type = "document"}}
        cached == paths \cap DOMAIN g.docCache
        combined == [p \in cached |-> g.docCache[p]]
    IN IF paths \ cached = {}
       THEN IF cached # {}
            THEN logCommandNow(
                    [g EXCEPT !.currentDocData = Some(Combined(combined)),
                              !.currentDocPath =
                                  SelectedText(Cardinality(cached)),
                              !.cachedDetailsDocPath = Nil],
                    <<"Using cached documents", Cardinality(cached)>>,
                    "success")
            ELSE g
       ELSE LET g1 == logCommandNow(g, <<"Fetching documents",
                                         Len(toFetch)>>, "running")
            IN [g1 EXCEPT
                  !.tasks = @ \o [i \in 1..Len(toFetch) |->
                                    [kind |-> "fetchSelected",
                                     pc |-> "GetDocument", idx |-> i,
                                     docPath |-> toFetch[i], fresh |-> TRUE]],
                  !.logged = @ + Len(toFetch) + 1,
                  !.loop = [pc |-> "doFetchSelectedDocs",
                            combined |-> combined, toFetch |-> toFetch,
                            results |-> [i \in 1..Len(toFetch) |-> ""]]]

\* the orders in which a set of paths can be walked
Orders(S) ==
    {seq \in [1..Cardinality(S) -> S] :
        \A i, j \in 1..Cardinality(S) : i # j => seq[i] # seq[j]}

\* the paths doFetchSelectedDocs has to fetch
ToFetch(g) ==
    LET filtered == getFilteredTreeNodes(g) IN
    {At(filtered, idx).Path :
        idx \in {i \in g.selectedDocs :
                    i < Len(filtered) /\ At(filtered, i).Type = "document"}}
    \ DOMAIN g.docCache

(***************************************************************************)
(* Handlers that call the store on the loop thread.                        *)
(***************************************************************************)
\* doRefresh up to the call of loadProjects
doRefresh(g) ==
    [logCommandNow(g, <<"Refreshing">>, "running")
        EXCEPT !.loop = [pc |-> "doRefresh"], !.logged = @ + 1]

\* doRefresh from the return of loadProjects (ListProjects)
doRefreshReturn(g, ok) ==
    LET g0 == [g EXCEPT !.loop = [pc |-> "idle"]] IN
    IF ~ok THEN logCommand(g0, <<"Failed">>, "error")
    ELSE logCommand(
            [g0 EXCEPT !.projects = StoreProjects,
                       !.collections = << >>, !.treeNodes = << >>,
                       !.currentDocData = Nil, !.currentDocPath = << >>,
                       !.currentProjectInfo = Nil,
                       !.selectedProjectIndex = 0,
                       !.selectedCollectionIdx = 0, !.selectedTreeIdx = 0],
            <<"Loaded projects", Len(StoreProjects)>>, "success")

\* copyJSONAction and saveJSONAction after getDocumentToCopy: cmdOk is the
\* outcome of the clipboard command or of the file write
exportDocument(g, cmd, docPath, cmdOk) ==
    IF cmdOk THEN logCommand(g, <<cmd, docPath>>, "success")
    ELSE logCommand(g, <<cmd, <<"failed">>>>, "error")

\* copyJSONAction / saveJSONAction up to the store call of getDocumentToCopy,
\* or to their end when no store call is made
exportAction(g, cmd, cmdOk) ==
    LET filtered == getFilteredTreeNodes(g) IN
    IF g.currentColumn = "tree" /\ Len(filtered) > 0
       /\ g.selectedTreeIdx < Len(filtered)
    THEN LET node == At(filtered, g.selectedTreeIdx) IN
         IF node.Type = "document"
         THEN [g EXCEPT !.loop = [pc |-> "getDocumentToCopy", cmd |-> cmd,
                                  docPath |-> node.Path],
                        !.logged = @ + 1]
         ELSE logCommandNow(g, <<cmd, <<"not a document">>>>, "error")
    ELSE IF g.currentDocData # Nil
    THEN [exportDocument(g, cmd, g.currentDocPath, cmdOk)
            EXCEPT !.logged = @ + 1]
    ELSE logCommandNow(g, <<cmd, <<"no document">>>>, "error")

doCopyJSON(g, cmdOk) == exportAction(g, "copy", cmdOk)

doSaveJSON(g, cmdOk) == exportAction(g, "save", cmdOk)

\* getDocumentToCopy from the return of GetDocument, and the rest of the
\* copy or save
getDocumentToCopyReturn(g, ok, cmdOk) ==
    LET g0 == [g EXCEPT !.loop = [pc |-> "idle"]] IN
    IF ~ok THEN logCommand(g0, <<g.loop.cmd, <<"fetch failed">>>>, "error")
    ELSE exportDocument(
            [g0 EXCEPT !.currentDocData = Some(StoreDocData(g.loop.docPath)),
                       !.currentDocPath = g.loop.docPath],
            g.loop.cmd, g.loop.docPath, cmdOk)

\* the action of a help popup item
RunItemAction(g, action, cmdOk) ==
    CASE action = "doSpace" -> doSpace(g)
      [] action = "doStartFilter" -> doStartFilter(g)
      [] action = "doRefresh" -> doRefresh(g)
      [] action = "doToggleModal" -> doToggleModal(g)
      [] action = "doQuit" -> doQuit(g)
      [] action = "doEnter" -> doEnter(g)
      [] action = "doCopyJSON" -> doCopyJSON(g, cmdOk)
      [] action = "doSaveJSON" -> doSaveJSON(g, cmdOk)
      [] OTHER -> g

\* helpClose closes the popup and runs the selected item's action
helpClose(g, cmdOk) ==
    LET p == g.helpPopup
        action == IF p # Nil /\ p[1].SelectedIdx >= 0
                     /\ p[1].SelectedIdx < Len(p[1].Items)
                  THEN At(p[1].Items, p[1].SelectedIdx).Action ELSE ""
    IN RunItemAction(closeHelp(g), action, cmdOk)

(***************************************************************************)
(* Steps of the background goroutines: the return of a store call.         *)
(***************************************************************************)
RemoveAt(s, i) == Slice(s, 1, i - 1) \o Slice(s, i + 1, Len(s))

\* an update posted by task t; failed marks the report of a failed call
Post(g, t, update, failed) ==
    Update(g, update @@ [fresh |-> t.fresh, failed |-> failed])

LogUpdate(command, status) ==
    [kind |-> "log", command |-> command, status |-> status]

\* the goroutine started by Run: two log updates, then loadProjects
startupStep(g, t, i, ok) ==
    IF t.pc = "start"
    THEN [Post(Post(g, t, LogUpdate(<<"auth">>, "success"), FALSE),
               t, LogUpdate(<<"Loading projects">>, "running"), FALSE)
            EXCEPT !.tasks[i].pc = "ListProjects"]
    ELSE IF ~ok
    THEN [Post(g, t, LogUpdate(<<"Failed">>, "error"), TRUE)
            EXCEPT !.tasks = RemoveAt(@, i)]
    ELSE [Post([g EXCEPT !.projects = StoreProjects], t,
               [kind |-> "logProjects"], FALSE)
            EXCEPT !.tasks = RemoveAt(@, i), !.taskWrote = {"projects"}]

\* the goroutine of selectProject: SetCurrentProject, the reset of the
\* panels, then loadCollections
selectProjectStep(g, t, i, ok) ==
    IF t.pc = "SetCurrentProject"
    THEN IF ~ok
         THEN [Post(g, t, LogUpdate(<<"SetProject failed">>, "error"), TRUE)
                EXCEPT !.tasks = RemoveAt(@, i)]
         ELSE [g EXCEPT !.clientProject = t.projectID,
                        !.currentProject = t.projectID,
                        !.collections = << >>, !.treeNodes = << >>,
                        !.currentDocData = Nil, !.currentCollection = << >>,
                        !.currentDocPath = << >>,
                        !.selectedCollectionIdx = 0, !.selectedTreeIdx = 0,
                        !.tasks[i].pc = "ListCollections",
                        !.taskWrote = {"currentProject", "collections",
                                       "treeNodes", "currentDocData",
                                       "currentCollection", "currentDocPath",
                                       "selectedCollectionIdx",
                                       "selectedTreeIdx"}]
    ELSE IF ~ok
         THEN [Post(g, t, LogUpdate(<<"ListCollections failed">>, "error"),
                    TRUE)
                EXCEPT !.tasks = RemoveAt(@, i)]
         ELSE [Post([g EXCEPT !.collections =
                                    StoreCollections(g.clientProject),
                              !.selectedCollectionIdx = 0],
                    t, [kind |-> "logCollections",
                        projectID |-> t.projectID], FALSE)
                EXCEPT !.tasks = RemoveAt(@, i),
                       !.taskWrote = {"collections", "selectedCollectionIdx"}]

selectCollectionStep(g, t, i, ok) ==
    IF ~ok
    THEN [Post(g, t, LogUpdate(<<"ListDocuments failed">>, "error"), TRUE)
            EXCEPT !.tasks = RemoveAt(@, i)]
    ELSE [Post(g, t, [kind |-> "applyCollection", name |-> t.name,
                      docs |-> StoreDocuments(t.name)], FALSE)
            EXCEPT !.tasks = RemoveAt(@, i)]

expandDocumentStep(g, t, i, ok) ==
    IF t.pc = "GetDocument"
    THEN IF ~ok
         THEN [Post(g, t, LogUpdate(<<"GetDocument failed">>, "error"), TRUE)
                EXCEPT !.tasks = RemoveAt(@, i)]
         ELSE [g EXCEPT !.tasks[i].pc = "ListSubcollections"]
    ELSE [Post(g, t, [kind |-> "applyDocument", nodePath |-> t.nodePath,
                      nodeName |-> t.nodeName, nodeDepth |-> t.nodeDepth,
                      nodeIdx |-> t.nodeIdx, err |-> ~ok,
                      subcols |-> IF ok THEN StoreSubcollections(t.nodePath)
                                  ELSE << >>], ~ok)
            EXCEPT !.tasks = RemoveAt(@, i)]

expandCollectionStep(g, t, i, ok) ==
    IF ~ok
    THEN [Post(g, t, LogUpdate(<<"ListDocuments failed">>, "error"), TRUE)
            EXCEPT !.tasks = RemoveAt(@, i)]
    ELSE [Post(g, t, [kind |-> "applyExpand", nodePath |-> t.nodePath,
                      nodeName |-> t.nodeName, nodeDepth |-> t.nodeDepth,
                      nodeIdx |-> t.nodeIdx,
                      docs |-> StoreDocuments(t.nodePath)], FALSE)
            EXCEPT !.tasks = RemoveAt(@, i)]

fetchProjectDetailsStep(g, t, i, ok) ==
    [Post(g, t, [kind |-> "applyDetails", projectID |-> t.projectID,
                 err |-> ~ok], ~ok)
        EXCEPT !.tasks = RemoveAt(@, i)]

\* a goroutine of doFetchSelectedDocs stores its result and is done
fetchSelectedStepMerging(g, t, i, ok) ==
    [g EXCEPT !.tasks = RemoveAt(@, i),
              !.loop.results[t.idx] = IF ok THEN "ok" ELSE "error",
              !.docCache = IF ok THEN (t.docPath :> DocFields(t.docPath)) @@ @
                           ELSE @]

fetchSelectedStep(g, t, i, ok) ==
    [g EXCEPT !.tasks = RemoveAt(@, i),
              !.loop.results[t.idx] = IF ok THEN "ok" ELSE "error"]

(***************************************************************************)
(* The query builder.                                                      *)
(***************************************************************************)
\* Query builder row indices
queryRowFilters == 0
queryRowOrderBy == 1
queryRowLimit == 2
queryRowButtons == 3

queryOperators == <<"==", "!=", "<", "<=", ">", ">=", "in", "not-in",
                    "array-contains", "array-contains-any">>

queryValueTypes == <<"auto", "string", "integer", "double", "boolean", "null",
                     "array">>

QueryFilter(field, operator, value, valueType) ==
    [Field |-> field, Operator |-> operator, Value |-> value,
     ValueType |-> valueType]

Digits == <<"0", "1", "2", "3", "4", "5", "6", "7", "8", "9">>

IsDigit(ch) == \E d \in 1..10 : Digits[d] = ch

DigitValue(ch) == (CHOOSE d \in 1..10 : Digits[d] = ch) - 1

\* the number written by a run of decimal digits
RECURSIVE DigitsValue(_)
DigitsValue(text) ==
    IF text = << >> THEN 0
    ELSE 10 * DigitsValue(SubSeq(text, 1, Len(text) - 1))
         + DigitValue(text[Len(text)])

\* strconv.Itoa
RECURSIVE Itoa(_)
Itoa(n) ==
    IF n < 0 THEN <<"-">> \o Itoa(0 - n)
    ELSE IF n < 10 THEN <<Digits[n + 1]>>
    ELSE Itoa(n \div 10) \o <<Digits[(n % 10) + 1]>>

\* strconv.Atoi and strconv.ParseInt(s, 10, 64): an optional sign and at
\* least one decimal digit, nothing else (the texts of the model are too
\* short to leave the 64-bit range); Nil is the error
Atoi(text) ==
    LET signed == text # << >> /\ text[1] \in {"+", "-"}
        digits == IF signed THEN Tail(text) ELSE text
    IN IF digits = << >> \/ \E k \in 1..Len(digits) : ~IsDigit(digits[k])
       THEN Nil
       ELSE Some(IF signed /\ text[1] = "-" THEN 0 - DigitsValue(digits)
                 ELSE DigitsValue(digits))

\* strings.TrimSpace
RECURSIVE TrimLeft(_)
TrimLeft(text) ==
    IF text # << >> /\ text[1] = " " THEN TrimLeft(Tail(text)) ELSE text

RECURSIVE TrimRight(_)
TrimRight(text) ==
    IF text # << >> /\ text[Len(text)] = " "
    THEN TrimRight(SubSeq(text, 1, Len(text) - 1)) ELSE text

TrimSpace(text) == TrimRight(TrimLeft(text))

\* getMaxColForRow returns the maximum column index for the current row
getMaxColForRow(g) ==
    CASE g.queryActiveRow = queryRowFilters ->
            IF Len(g.queryFilters) = 0 THEN 0
            ELSE Len(g.queryFilters) * 4 - 1
      [] g.queryActiveRow = queryRowOrderBy -> 1
      [] g.queryActiveRow = queryRowLimit -> 0
      [] g.queryActiveRow = queryRowButtons -> 1
      [] OTHER -> 0

openQueryModal(g) ==
    LET filtered == getFilteredTreeNodes(g)
        onCollection ==
            /\ g.currentColumn = "tree"
            /\ g.selectedTreeIdx < Len(filtered)
            /\ At(filtered, g.selectedTreeIdx).Type = "collection"
        collectionPath == IF onCollection
                          THEN At(filtered, g.selectedTreeIdx).Path
                          ELSE g.currentCollection
        nodeIdx == IF onCollection
                   THEN getOriginalTreeNodeIndex(g, g.selectedTreeIdx)
                   ELSE -1
    IN IF collectionPath = << >>
       THEN logCommandNow(g, <<"No collection selected">>, "error")
       ELSE logCommandNow(
                [g EXCEPT !.queryCollection = collectionPath,
                          !.queryNodeIdx = nodeIdx,
                          !.queryModalOpen = TRUE,
                          !.queryActiveRow = queryRowFilters,
                          !.queryActiveCol = 0,
                          !.queryEditMode = FALSE,
                          !.queryEditBuffer = << >>,
                          !.queryLimit = IF @ = 0 THEN 50 ELSE @,
                          !.queryOrderDir = IF @ = "" THEN "ASC" ELSE @],
                <<"Query", collectionPath>>, "success")

closeQueryModal(g) ==
    [g EXCEPT !.queryModalOpen = FALSE, !.queryEditMode = FALSE]

clearQuery(g) ==
    [g EXCEPT !.queryFilters = << >>, !.queryOrderBy = << >>,
              !.queryOrderDir = "", !.queryLimit = 50,
              !.queryActiveRow = queryRowFilters, !.queryActiveCol = 0,
              !.queryResultMode = FALSE]

\* the draft of the builder as QueryOptions
Draft(g) ==
    [Filters |-> g.queryFilters, OrderBy |-> g.queryOrderBy,
     OrderDir |-> g.queryOrderDir, Limit |-> g.queryLimit]

\* executeQuery runs the query and displays results in the tree: the
\* goroutine reads the draft when it starts to run, then calls RunQuery; the
\* task remembers the draft of the moment of execute (draft, an observation)
executeQuery(g) ==
    IF g.queryCollection = << >> THEN g
    ELSE Go(logCommandNow([g EXCEPT !.queryModalOpen = FALSE,
                                    !.treeLoading = TRUE],
                          <<"Query on", g.queryCollection>>, "running"),
            [kind |-> "executeQuery", pc |-> "start",
             collectionPath |-> g.queryCollection,
             nodeIdx |-> g.queryNodeIdx, draft |-> Draft(g)])

addQueryFilter(g) ==
    [g EXCEPT !.queryFilters = Append(@, QueryFilter(<< >>, "==", << >>, "auto")),
              !.queryActiveRow = queryRowFilters,
              !.queryActiveCol = Len(g.queryFilters) * 4]

\* a removal that leaves the cursor column as it is
removeQueryFilterNoClamp(g) ==
    IF Len(g.queryFilters) = 0 THEN g
    ELSE LET idx0 == g.queryActiveCol \div 4
             idx == IF idx0 >= Len(g.queryFilters)
                    THEN Len(g.queryFilters) - 1 ELSE idx0
         IN [g EXCEPT !.queryFilters = RemoveAt(@, idx + 1)]

removeQueryFilter(g) ==
    IF Len(g.queryFilters) = 0 THEN g
    ELSE LET idx0 == g.queryActiveCol \div 4
             idx == IF idx0 >= Len(g.queryFilters)
                    THEN Len(g.queryFilters) - 1 ELSE idx0
             g1 == [g EXCEPT !.queryFilters = RemoveAt(@, idx + 1)]
             maxCol == getMaxColForRow(g1)
         IN IF g1.queryActiveCol > maxCol
            THEN [g1 EXCEPT !.queryActiveCol = maxCol] ELSE g1

\* openQuerySelect: the callback is kept as the field it will write
openQuerySelect(g, items, current, callback) ==
    LET hits == {i \in 0..(Len(items) - 1) : At(items, i) = current} IN
    [g EXCEPT !.querySelectItems = items,
              !.querySelectCallback = Some(callback),
              !.querySelectOpen = TRUE,
              !.querySelectIdx =
                  IF hits = {} THEN 0
                  ELSE CHOOSE i \in hits : \A j \in hits : i <= j]

closeQuerySelect(g) ==
    [g EXCEPT !.querySelectOpen = FALSE, !.querySelectItems = << >>,
              !.querySelectCallback = Nil]

\* the callbacks of startQueryEdit; writing a filter that is no longer
\* there is an index out of range, which ends the program
runQuerySelectCallback(g, callback, selected) ==
    CASE callback.field = "OrderDir" -> [g EXCEPT !.queryOrderDir = selected]
      [] callback.idx >= Len(g.queryFilters) -> [g EXCEPT !.running = FALSE]
      [] callback.field = "Operator" ->
            [g EXCEPT !.queryFilters[callback.idx + 1].Operator = selected]
      [] callback.field = "ValueType" ->
            [g EXCEPT !.queryFilters[callback.idx + 1].ValueType = selected]

confirmQuerySelect(g) ==
    closeQuerySelect(
        IF g.querySelectCallback # Nil
           /\ g.querySelectIdx < Len(g.querySelectItems)
        THEN runQuerySelectCallback(g, g.querySelectCallback[1],
                                    At(g.querySelectItems, g.querySelectIdx))
        ELSE g)

startQueryEdit(g) ==
    CASE g.queryActiveRow = queryRowFilters ->
            LET idx == g.queryActiveCol \div 4
                col == g.queryActiveCol % 4
            IN IF Len(g.queryFilters) > 0 /\ idx < Len(g.queryFilters)
               THEN CASE col = 0 ->
                            [g EXCEPT !.queryEditBuffer = At(g.queryFilters, idx).Field,
                                      !.queryEditMode = TRUE]
                      [] col = 1 ->
                            openQuerySelect(g, queryOperators,
                                            At(g.queryFilters, idx).Operator,
                                            [field |-> "Operator", idx |-> idx])
                      [] col = 2 ->
                            openQuerySelect(g, queryValueTypes,
                                            At(g.queryFilters, idx).ValueType,
                                            [field |-> "ValueType", idx |-> idx])
                      [] col = 3 ->
                            [g EXCEPT !.queryEditBuffer = At(g.queryFilters, idx).Value,
                                      !.queryEditMode = TRUE]
               ELSE g
      [] g.queryActiveRow = queryRowOrderBy ->
            IF g.queryActiveCol = 0
            THEN [g EXCEPT !.queryEditBuffer = g.queryOrderBy,
                           !.queryEditMode = TRUE]
            ELSE openQuerySelect(g, <<"ASC", "DESC">>, g.queryOrderDir,
                                 [field |-> "OrderDir", idx |-> 0])
      [] g.queryActiveRow = queryRowLimit ->
            [g EXCEPT !.queryEditBuffer = Itoa(g.queryLimit),
                      !.queryEditMode = TRUE]
      [] OTHER -> g

handleQueryEnter(g) ==
    CASE g.queryActiveRow = queryRowFilters ->
            IF Len(g.queryFilters) = 0 THEN addQueryFilter(g)
            ELSE startQueryEdit(g)
      [] g.queryActiveRow = queryRowOrderBy -> startQueryEdit(g)
      [] g.queryActiveRow = queryRowLimit -> startQueryEdit(g)
      [] g.queryActiveRow = queryRowButtons ->
            IF g.queryActiveCol = 0 THEN executeQuery(g) ELSE clearQuery(g)
      [] OTHER -> g

\* commitQueryEditFromView; content is the text of the input view
commitQueryEditAnyNumber(g, viewContent) ==
    LET content == TrimSpace(viewContent)
        g1 == [g EXCEPT !.queryEditMode = FALSE]
    IN IF g.queryActiveRow = queryRowLimit /\ Atoi(content) # Nil
       THEN [g1 EXCEPT !.queryLimit = Atoi(content)[1]]
       ELSE g1

commitQueryEditFromView(g, viewContent) ==
    LET content == TrimSpace(viewContent)
        g1 == [g EXCEPT !.queryEditMode = FALSE]
        idx == g.queryActiveCol \div 4
        col == g.queryActiveCol % 4
    IN CASE g.queryActiveRow = queryRowFilters ->
                IF Len(g.queryFilters) > 0 /\ idx < Len(g.queryFilters)
                THEN CASE col = 0 -> [g1 EXCEPT !.queryFilters[idx + 1].Field = content]
                       [] col = 3 -> [g1 EXCEPT !.queryFilters[idx + 1].Value = content]
                       [] OTHER -> g1
                ELSE g1
         [] g.queryActiveRow = queryRowOrderBy ->
                [g1 EXCEPT !.queryOrderBy = content]
         [] g.queryActiveRow = queryRowLimit ->
                IF Atoi(content) # Nil /\ Atoi(content)[1] > 0
                THEN [g1 EXCEPT !.queryLimit = Atoi(content)[1]]
                ELSE g1
         [] OTHER -> g1

\* queryInputEditor: Enter commits the edit, Esc cancels it
queryInputEditorEscCommits(g, key, viewContent) ==
    IF key \in {"Enter", "Esc"} THEN commitQueryEditFromView(g, viewContent)
    ELSE g

queryInputEditor(g, key, viewContent) ==
    CASE key = "Enter" -> commitQueryEditFromView(g, viewContent)
      [] key = "Esc" -> [g EXCEPT !.queryEditMode = FALSE]
      [] OTHER -> g

\* Query builder action handlers
doOpenQuery(g) == openQueryModal(g)

queryClose(g) == closeQueryModal(g)

queryMoveUp(g) ==
    LET filterIdx == g.queryActiveCol \div 4
        colInFilter == g.queryActiveCol % 4
    IN IF g.queryActiveRow = queryRowFilters /\ Len(g.queryFilters) > 0
          /\ filterIdx > 0
       THEN [g EXCEPT !.queryActiveCol = (filterIdx - 1) * 4 + colInFilter]
       ELSE LET row == IF g.queryActiveRow - 1 < 0 THEN queryRowButtons
                       ELSE g.queryActiveRow - 1
            IN [g EXCEPT !.queryActiveRow = row,
                         !.queryActiveCol =
                             IF row = queryRowFilters /\ Len(g.queryFilters) > 0
                             THEN (Len(g.queryFilters) - 1) * 4 ELSE 0]

queryMoveDown(g) ==
    LET filterIdx == g.queryActiveCol \div 4
        colInFilter == g.queryActiveCol % 4
    IN IF g.queryActiveRow = queryRowFilters /\ Len(g.queryFilters) > 0
          /\ filterIdx < Len(g.queryFilters) - 1
       THEN [g EXCEPT !.queryActiveCol = (filterIdx + 1) * 4 + colInFilter]
       ELSE [g EXCEPT !.queryActiveRow =
                          IF g.queryActiveRow + 1 > queryRowButtons
                          THEN queryRowFilters ELSE g.queryActiveRow + 1,
                      !.queryActiveCol = 0]

queryMoveLeft(g) ==
    IF g.queryActiveCol - 1 < 0
    THEN [g EXCEPT !.queryActiveCol = getMaxColForRow(g)]
    ELSE [g EXCEPT !.queryActiveCol = @ - 1]

queryMoveRight(g) ==
    IF g.queryActiveCol + 1 > getMaxColForRow(g)
    THEN [g EXCEPT !.queryActiveCol = 0]
    ELSE [g EXCEPT !.queryActiveCol = @ + 1]

queryKeyJ(g) == queryMoveDown(g)

queryKeyK(g) == queryMoveUp(g)

queryKeyH(g) == queryMoveLeft(g)

queryKeyL(g) == queryMoveRight(g)

queryNextFieldInRow(g) ==
    IF g.queryActiveCol < getMaxColForRow(g)
    THEN [g EXCEPT !.queryActiveCol = @ + 1]
    ELSE [g EXCEPT !.queryActiveCol = 0]

queryNextField(g) ==
    IF g.queryActiveCol < getMaxColForRow(g)
    THEN [g EXCEPT !.queryActiveCol = @ + 1]
    ELSE [g EXCEPT !.queryActiveCol = 0,
                   !.queryActiveRow =
                       IF g.queryActiveRow + 1 > queryRowButtons
                       THEN queryRowFilters ELSE g.queryActiveRow + 1]

queryEnter(g) == handleQueryEnter(g)

queryBackspace(g) == g

queryInsertChar(g, ch) ==
    CASE ch = "a" -> addQueryFilter(g)
      [] ch = "d" ->
            IF g.queryActiveRow = queryRowFilters /\ Len(g.queryFilters) > 0
            THEN removeQueryFilter(g) ELSE g
      [] OTHER -> g

\* Query select popup handlers
querySelectMoveUp(g) ==
    IF g.querySelectIdx > 0 THEN [g EXCEPT !.querySelectIdx = @ - 1] ELSE g

querySelectMoveDown(g) ==
    IF g.querySelectIdx < Len(g.querySelectItems) - 1
    THEN [g EXCEPT !.querySelectIdx = @ + 1] ELSE g

querySelectConfirm(g) == confirmQuerySelect(g)

querySelectClose(g) == closeQuerySelect(g)

\* RunQuery as the store answers it: the documents of the collection, at
\* most Limit of them when the limit is positive
StoreQuery(collectionPath, opts) ==
    LET docs == StoreDocuments(collectionPath) IN
    IF opts.Limit > 0 /\ Len(docs) > opts.Limit
    THEN SubSeq(docs, 1, opts.Limit) ELSE docs

\* the goroutine of executeQuery
executeQueryStep(g, t, i, ok) ==
    IF t.pc = "start"
    THEN [g EXCEPT !.tasks[i] =
            [kind |-> "executeQuery", pc |-> "RunQuery", fresh |-> t.fresh,
             collectionPath |-> t.collectionPath, nodeIdx |-> t.nodeIdx,
             draft |-> t.draft, opts |-> Draft(g)]]
    ELSE [Post(g, t, [kind |-> "applyQuery", nodeIdx |-> t.nodeIdx, err |-> ~ok,
                      collectionPath |-> t.collectionPath,
                      docs |-> IF ok THEN StoreQuery(t.collectionPath, t.opts)
                               ELSE << >>], ~ok)
            EXCEPT !.tasks = RemoveAt(@, i)]

\* the update of executeQuery
applyQuery(g, u) ==
    LET g1 == [g EXCEPT !.treeLoading = FALSE] IN
    IF u.err THEN logCommand(g1, <<"Error">>, "error")
    ELSE
    LET cached == [p \in {u.docs[k].Path : k \in 1..Len(u.docs)} |-> DocFields(p)]
        g2 == [g1 EXCEPT !.docCache = cached @@ @]
        g3 == IF u.nodeIdx = -1
              THEN [g2 EXCEPT !.queryResultMode = TRUE,
                              !.treeNodes = DocNodes(u.docs, 0),
                              !.selectedTreeIdx = 0]
              ELSE IF u.nodeIdx < Len(g2.treeNodes)
              THEN LET parentDepth == At(g2.treeNodes, u.nodeIdx).Depth
                       collapsed == collapseNode(g2.treeNodes, u.nodeIdx)
                       newChildren == DocNodes(u.docs, parentDepth + 1)
                   IN [g2 EXCEPT
                         !.treeNodes =
                            IF Len(newChildren) > 0
                            THEN InsertChildren(collapsed, u.nodeIdx, newChildren)
                            ELSE collapsed,
                         !.selectedTreeIdx = u.nodeIdx + 1]
              ELSE g2
    IN logCommand(g3, <<"Found", Len(u.docs)>>, "success")

\* task i gets the answer of its store call
TaskStep(g, i, ok) ==
    LET t == g.tasks[i]
        g0 == [g EXCEPT !.taskWrote = {}, !.lastFailed = Nil]
    IN CASE t.kind = "startup" -> startupStep(g0, t, i, ok)
         [] t.kind = "selectProject" -> selectProjectStep(g0, t, i, ok)
         [] t.kind = "selectCollection" -> selectCollectionStep(g0, t, i, ok)
         [] t.kind = "expandDocument" -> expandDocumentStep(g0, t, i, ok)
         [] t.kind = "expandCollection" -> expandCollectionStep(g0, t, i, ok)
         [] t.kind = "fetchProjectDetails" ->
                fetchProjectDetailsStep(g0, t, i, ok)
         [] t.kind = "fetchSelected" -> fetchSelectedStep(g0, t, i, ok)
         [] t.kind = "executeQuery" -> executeQueryStep(g0, t, i, ok)

(***************************************************************************)
(* Updates run by the loop.                                                *)
(***************************************************************************)
\* the update of selectTreeNode for a document
applyDocument(g, u) ==
    LET g1 == [g EXCEPT !.currentDocPath = u.nodePath,
                        !.currentDocData = Some(StoreDocData(u.nodePath))]
    IN IF u.err \/ Len(u.subcols) = 0
       THEN logCommand(g1, <<"GetDocument", u.nodeName, "loaded">>, "success")
       ELSE logCommand(
                [g1 EXCEPT !.treeNodes =
                    InsertChildren(@, u.nodeIdx,
                                   SubNodes(u.subcols, u.nodeDepth + 1))],
                <<"GetDocument", u.nodeName, Len(u.subcols)>>, "success")

\* the update of selectTreeNode for a collection
applyExpand(g, u) ==
    IF Len(u.docs) = 0
    THEN logCommand(g, <<"ListDocuments", u.nodeName, "empty">>, "success")
    ELSE logCommand(
            [g EXCEPT !.treeNodes =
                InsertChildren(@, u.nodeIdx,
                               DocNodes(u.docs, u.nodeDepth + 1))],
            <<"ListDocuments", u.nodeName, Len(u.docs)>>, "success")

\* the update of selectCollection
applyCollection(g, u) ==
    logCommand([g EXCEPT !.treeNodes = DocNodes(u.docs, 0),
                         !.selectedTreeIdx = 0],
               <<"ListDocuments", u.name, Len(u.docs)>>, "success")

\* the update of fetchProjectDetails
applyDetails(g, u) ==
    IF u.err THEN logCommand(g, <<"GetProjectDetails failed">>, "error")
    ELSE logCommand([g EXCEPT !.currentProjectInfo = Some(u.projectID),
                              !.currentDocData = Nil],
                    <<"GetProjectDetails", u.projectID>>, "success")

\* the function of an update
RunUpdate(g, u) ==
    CASE u.kind = "log" -> logCommand(g, u.command, u.status)
      [] u.kind = "logProjects" ->
            logCommand(g, <<"Loaded projects", Len(g.projects)>>, "success")
      [] u.kind = "logCollections" ->
            logCommand(g, <<"ListCollections", u.projectID,
                            Len(g.collections)>>, "success")
      [] u.kind = "applyCollection" -> applyCollection(g, u)
      [] u.kind = "applyDocument" -> applyDocument(g, u)
      [] u.kind = "applyExpand" -> applyExpand(g, u)
      [] u.kind = "applyDetails" -> applyDetails(g, u)
      [] u.kind = "applyQuery" -> applyQuery(g, u)

\* no call is the only thing that happened since the last user action
Stale(g) ==
    [g EXCEPT !.tasks = [i \in DOMAIN @ |-> [@[i] EXCEPT !.fresh = FALSE]],
              !.updates = [i \in DOMAIN @ |-> [@[i] EXCEPT !.fresh = FALSE]],
              !.lastIssued = Nil, !.lastFailed = Nil, !.taskWrote = {}]

\* the loop takes the oldest update, runs it and lays out the panels
ApplyUpdate(g) ==
    LET u == Head(g.updates)
        g0 == [g EXCEPT !.updates = Tail(@), !.taskWrote = {},
                        !.lastFailed = Nil]
        g1 == Layout(RunUpdate(g0, u))
    IN IF ~u.fresh THEN Stale(g1)
       ELSE [g1 EXCEPT !.lastFailed = IF u.failed THEN g.lastIssued ELSE Nil,
                       !.lastIssued = Nil]

\* a key handler has run from state g and left g2: the panels are laid out
\* and the observation is updated
Finish(g, g2) ==
    LET g3 == Layout(g2) IN
    [g3 EXCEPT
        !.enteredFrom =
            IF g3.currentColumn # "details" THEN ""
            ELSE IF g.currentColumn # "details" THEN g.currentColumn
            ELSE @,
        !.lastIssued =
            IF Len(g3.tasks) > Len(g.tasks) \/ g3.loop.pc # "idle"
            THEN Some(UIState(g)) ELSE Nil]

\* the bounds of the model hold in g
Bounded(g) ==
    /\ g.logged <= MaxLogged
    /\ Len(g.tasks) <= MaxPending
    /\ Len(g.filterInputText) <= MaxFilterLen
    /\ g.detailsScrollPos <= MaxScroll

(***************************************************************************)
(* Initial states.                                                         *)
(***************************************************************************)
\* NewGui, and Run up to the start of the main loop
NewGui ==
    [currentColumn |-> "projects", previousColumn |-> "",
     helpOpen |-> FALSE, helpPopup |-> Nil, modalOpen |-> FALSE,
     projects |-> << >>, selectedProjectIndex |-> 0,
     currentProject |-> << >>, currentProjectInfo |-> Nil,
     collections |-> << >>, selectedCollectionIdx |-> 0,
     currentCollection |-> << >>,
     treeNodes |-> << >>, selectedTreeIdx |-> 0, treeLoading |-> FALSE,
     currentDocPath |-> << >>, currentDocData |-> Nil, docCache |-> << >>,
     detailsScrollPos |-> 0, cachedDetailsDocPath |-> Nil,
     filterInputActive |-> FALSE, filterInputText |-> << >>,
     filterInputPanel |-> "", filterCursorPos |-> 0,
     projectsFilter |-> << >>, collectionsFilter |-> << >>,
     treeFilter |-> << >>, detailsFilter |-> << >>,
     selectMode |-> FALSE, selectStartIdx |-> 0, selectedDocs |-> {},
     queryModalOpen |-> FALSE, querySelectOpen |-> FALSE,
     queryEditMode |-> FALSE, queryCollection |-> << >>,
     queryNodeIdx |-> 0, queryFilters |-> << >>, queryOrderBy |-> << >>,
     queryOrderDir |-> "", queryLimit |-> 0, queryActiveRow |-> 0,
     queryActiveCol |-> 0, queryResultMode |-> FALSE,
     queryEditBuffer |-> << >>, querySelectItems |-> << >>,
     querySelectIdx |-> 0, querySelectCallback |-> Nil,
     commandHistory |-> <<[command |-> <<"LazyFire starting">>,
                           status |-> "running"]>>,
     clientProject |-> << >>,
     tasks |-> <<[kind |-> "startup", pc |-> "start", fresh |-> FALSE]>>,
     updates |-> << >>, loop |-> [pc |-> "idle"],
     running |-> TRUE, logged |-> 0,
     lastKey |-> None, lastContext |-> None, lastRan |-> << >>,
     lastFailed |-> Nil, taskWrote |-> {}, enteredFrom |-> "",
     lastIssued |-> Nil]

\* the loop runs every queued update
RECURSIVE Drain(_)
Drain(g) == IF g.updates = << >> THEN g ELSE Drain(ApplyUpdate(g))

\* every goroutine in flight gets a successful answer, oldest first
RECURSIVE Settle(_)
Settle(g) ==
    IF g.tasks = << >> THEN Drain(g) ELSE Settle(TaskStep(g, 1, TRUE))

\* a key handler runs from g, then every call it issued completes
Then(g, g2) == Settle(Finish(g, g2))

\* the observation and the log budget start afresh
Fresh(g) == [Stale(g) EXCEPT !.logged = 0]

\* started: the projects are listed
Started == Fresh(Settle(NewGui))

\* project p is selected, the focus is on its collections
ProjectOpen ==
    LET g1 == Then(Started, doSpace(Started)) IN
    Fresh(Then(g1, doColumnRight(g1)))

\* collection c is loaded, the focus is on the tree
CollectionOpen ==
    LET g1 == Then(ProjectOpen, doSpace(ProjectOpen)) IN
    Fresh(Then(g1, doColumnRight(g1)))

\* document c/a is expanded: the tree is c/a, c/a/o, c/b
DocumentOpen == Fresh(Then(CollectionOpen, doSpace(CollectionOpen)))

\* the Gui is g
InitGui(g) ==
    /\ currentColumn = g.currentColumn
    /\ previousColumn = g.previousColumn
    /\ helpOpen = g.helpOpen
    /\ helpPopup = g.helpPopup
    /\ modalOpen = g.modalOpen
    /\ projects = g.projects
    /\ selectedProjectIndex = g.selectedProjectIndex
    /\ currentProject = g.currentProject
    /\ currentProjectInfo = g.currentProjectInfo
    /\ collections = g.collections
    /\ selectedCollectionIdx = g.selectedCollectionIdx
    /\ currentCollection = g.currentCollection
    /\ treeNodes = g.treeNodes
    /\ selectedTreeIdx = g.selectedTreeIdx
    /\ treeLoading = g.treeLoading
    /\ currentDocPath = g.currentDocPath
    /\ currentDocData = g.currentDocData
    /\ docCache = g.docCache
    /\ detailsScrollPos = g.detailsScrollPos
    /\ cachedDetailsDocPath = g.cachedDetailsDocPath
    /\ filterInputActive = g.filterInputActive
    /\ filterInputText = g.filterInputText
    /\ filterInputPanel = g.filterInputPanel
    /\ filterCursorPos = g.filterCursorPos
    /\ projectsFilter = g.projectsFilter
    /\ collectionsFilter = g.collectionsFilter
    /\ treeFilter = g.treeFilter
    /\ detailsFilter = g.detailsFilter
    /\ selectMode = g.selectMode
    /\ selectStartIdx = g.selectStartIdx
    /\ selectedDocs = g.selectedDocs
    /\ queryModalOpen = g.queryModalOpen
    /\ querySelectOpen = g.querySelectOpen
    /\ queryEditMode = g.queryEditMode
    /\ queryCollection = g.queryCollection
    /\ queryNodeIdx = g.queryNodeIdx
    /\ queryFilters = g.queryFilters
    /\ queryOrderBy = g.queryOrderBy
    /\ queryOrderDir = g.queryOrderDir
    /\ queryLimit = g.queryLimit
    /\ queryActiveRow = g.queryActiveRow
    /\ queryActiveCol = g.queryActiveCol
    /\ queryResultMode = g.queryResultMode
    /\ queryEditBuffer = g.queryEditBuffer
    /\ querySelectItems = g.querySelectItems
    /\ querySelectIdx = g.querySelectIdx
    /\ querySelectCallback = g.querySelectCallback
    /\ commandHistory = g.commandHistory
    /\ clientProject = g.clientProject
    /\ tasks = g.tasks
    /\ updates = g.updates
    /\ loop = g.loop
    /\ running = g.running
    /\ logged = g.logged
    /\ lastKey = g.lastKey
    /\ lastContext = g.lastContext
    /\ lastRan = g.lastRan
    /\ lastFailed = g.lastFailed
    /\ taskWrote = g.taskWrote
    /\ enteredFrom = g.enteredFrom
    /\ lastIssued = g.lastIssued

\* the state is g, no function is applied on its own
InitFrom(g) == InitGui(g) /\ probe = Nil

(***************************************************************************)
(* Actions of the loop thread: one per handler.                            *)
(***************************************************************************)
\* the clicked line of a view
MaxLine == 3
Lines == 0..MaxLine

\* what the keys invoke in each context
Dispatch == [ctx \in Contexts |-> {wrapHandler(Binding(k), ctx) : k \in Keys}]

\* some key invokes handler h in the current context and the loop is free
\* to dispatch it; g2 is the state the handler leaves
KeyStep(h, g2) ==
    /\ running
    /\ loop.pc = "idle"
    /\ <<h>> \in Dispatch[resolveContext(G)]
    /\ LET g3 == [Finish(G, g2) EXCEPT !.lastRan = <<h>>] IN
       Bounded(g3) /\ Commit(g3)


DoEscape == KeyStep(H("doEscape"), doEscape(Stale(G)))
DoColumnLeft == KeyStep(H("doColumnLeft"), doColumnLeft(Stale(G)))
DoColumnRight == KeyStep(H("doColumnRight"), doColumnRight(Stale(G)))
DoCursorUp == KeyStep(H("doCursorUp"), doCursorUp(Stale(G)))
DoCursorDown == KeyStep(H("doCursorDown"), doCursorDown(Stale(G)))
DoNextColumn == KeyStep(H("doNextColumn"), doNextColumn(Stale(G)))
DoSpace == KeyStep(H("doSpace"), doSpace(Stale(G)))
DoEnter == KeyStep(H("doEnter"), doEnter(Stale(G)))
DoCopyJSON ==
    \E cmdOk \in BOOLEAN :
        KeyStep(H("doCopyJSON"), doCopyJSON(Stale(G), cmdOk))
DoRefresh == KeyStep(H("doRefresh"), doRefresh(Stale(G)))
DoToggleSelectMode ==
    KeyStep(H("doToggleSelectMode"), doToggleSelectMode(Stale(G)))
SelectMoveUp == KeyStep(H("selectMoveUp"), selectMoveUp(Stale(G)))
SelectMoveDown == KeyStep(H("selectMoveDown"), selectMoveDown(Stale(G)))
DoFetchSelectedDocs ==
    \E toFetch \in Orders(ToFetch(G)) :
        KeyStep(H("doFetchSelectedDocs"),
                doFetchSelectedDocs(Stale(G), toFetch))
DoTreeClick ==
    \E line \in Lines : KeyStep(H("doTreeClick"), doTreeClick(Stale(G), line))
DoDetailsClick == KeyStep(H("doDetailsClick"), doDetailsClick(Stale(G)))

(***************************************************************************)
(* Actions of the goroutines, of the update queue and of the store calls   *)
(* the loop waits for.                                                     *)
(***************************************************************************)
\* a store call of a goroutine returns; writes of a goroutine that the last
\* user action did not start end the observation of that action
GoroutineStep ==
    /\ running
    /\ \E i \in 1..Len(tasks), ok \in BOOLEAN :
        LET g2 == TaskStep(G, i, ok) IN
        Commit([(IF g2.taskWrote # {} /\ ~tasks[i].fresh
                 THEN [Stale(g2) EXCEPT !.taskWrote = g2.taskWrote]
                 ELSE g2) EXCEPT !.lastRan = << >>])

\* the loop runs the oldest queued update
LoopUpdate ==
    /\ running
    /\ loop.pc = "idle"
    /\ updates # << >>
    /\ Commit([ApplyUpdate(G) EXCEPT !.lastRan = << >>])

\* the return value of a call made on the loop thread
SyncReturn(g, g2, ok) ==
    LET g3 == Layout(g2) IN
    [g3 EXCEPT !.lastFailed = IF ok THEN Nil ELSE g.lastIssued,
               !.lastIssued = Nil, !.taskWrote = {}, !.lastRan = << >>]

\* loadProjects returns to doRefresh
DoRefreshReturn ==
    /\ running
    /\ loop.pc = "doRefresh"
    /\ \E ok \in BOOLEAN : Commit(SyncReturn(G, doRefreshReturn(G, ok), ok))

\* GetDocument returns to getDocumentToCopy
GetDocumentToCopyReturn ==
    /\ running
    /\ loop.pc = "getDocumentToCopy"
    /\ \E ok, cmdOk \in BOOLEAN :
        Commit(SyncReturn(G, getDocumentToCopyReturn(G, ok, cmdOk), ok))

\* wg.Wait() returns to doFetchSelectedDocs: every fetch has stored a result
DoFetchSelectedDocsJoin ==
    /\ running
    /\ loop.pc = "doFetchSelectedDocs"
    /\ \A i \in DOMAIN loop.results : loop.results[i] # ""
    /\ Commit(SyncReturn(G,
            mergeSelectedDocs([G EXCEPT !.loop = [pc |-> "idle"]],
                              loop.combined, loop.toFetch, loop.results),
            \A i \in DOMAIN loop.results : loop.results[i] = "ok"))

(***************************************************************************)
(* Context resolution and dispatch as functions of the UI flags: every     *)
(* combination of the flags, every key.                                    *)
(***************************************************************************)
InitDispatch ==
    \E help, modal, query, querySelect, filter, select \in BOOLEAN :
        InitFrom([CollectionOpen EXCEPT
                    !.helpOpen = help,
                    !.helpPopup = IF help THEN Some(NewPopup(HelpItems("tree")))
                                  ELSE Nil,
                    !.modalOpen = modal,
                    !.queryModalOpen = query,
                    !.querySelectOpen = querySelect,
                    !.filterInputActive = filter,
                    !.filterInputPanel = IF filter THEN "tree" ELSE "",
                    !.selectMode = select,
                    !.selectedDocs = IF select THEN {0} ELSE {}])

\* a key press is resolved: the context, and the handlers invoked for it
Press ==
    \E k \in Keys :
        Commit([G EXCEPT !.lastKey = k,
                         !.lastContext = resolveContext(G),
                         !.lastRan = wrapHandler(Binding(k),
                                                 resolveContext(G))])

NextDispatch == Press

SpecDispatch == InitDispatch /\ [][NextDispatch]_vars

\* the first mode that applies, in the given order of <<flag, mode>> pairs
RECURSIVE FirstMode(_)
FirstMode(order) ==
    IF order = << >> THEN ContextNormal
    ELSE IF Head(order)[1] THEN Head(order)[2]
    ELSE FirstMode(Tail(order))

C4_DispatchOverrideOrDefault ==
    lastKey # None =>
        LET b == Binding(lastKey) IN
        IF lastContext \in DOMAIN b.Contexts
        THEN lastRan = <<b.Contexts[lastContext]>>
        ELSE lastRan = <<b.Handler>>

\* j was pressed in select mode: the override ran, the default did not
C4_Witness ==
    /\ lastKey = "j"
    /\ lastContext = ContextSelect
    /\ lastRan = <<H("selectMoveDown")>>

(***************************************************************************)
(* Specifications.  Each starts with document c/a expanded in the tree     *)
(* (project p and collection c loaded) and takes the handlers of one part  *)
(* of the program.                                                         *)
(***************************************************************************)
Init == InitFrom(DocumentOpen)

\* browsing: the cursor, the panels, select/expand/collapse and the calls
\* they issue
NextTree ==
    \/ DoColumnLeft
    \/ DoColumnRight
    \/ DoCursorUp
    \/ DoCursorDown
    \/ DoSpace
    \/ GoroutineStep
    \/ LoopUpdate

SpecTree == Init /\ [][NextTree]_vars

\* focus: the ways into the details panel and back, with select mode
NextFocus ==
    \/ DoColumnLeft
    \/ DoColumnRight
    \/ DoNextColumn
    \/ DoEnter
    \/ DoEscape
    \/ DoToggleSelectMode
    \/ DoTreeClick
    \/ DoDetailsClick
    \/ GoroutineStep
    \/ LoopUpdate

SpecFocus == Init /\ [][NextFocus]_vars

\* select mode on the tree: the range, the batch fetch and the other
\* handlers that call the store themselves
NextSelect ==
    \/ DoEscape
    \/ DoToggleSelectMode
    \/ SelectMoveUp
    \/ SelectMoveDown
    \/ DoFetchSelectedDocs
    \/ DoTreeClick
    \/ DoCopyJSON
    \/ DoRefresh
    \/ GoroutineStep
    \/ LoopUpdate
    \/ DoRefreshReturn
    \/ GetDocumentToCopyReturn
    \/ DoFetchSelectedDocsJoin

SpecSelect == Init /\ [][NextSelect]_vars

(***************************************************************************)
(* Claims about the tree and the calls to the store (SpecTree).            *)
(***************************************************************************)
\* the tree panel's list is a depth-first pre-order listing
PreOrder(nodes) ==
    \/ nodes = << >>
    \/ /\ nodes[1].Depth = 0
       /\ \A i \in 1..(Len(nodes) - 1) :
            /\ nodes[i + 1].Depth <= nodes[i].Depth + 1
            /\ nodes[i + 1].Depth > nodes[i].Depth => nodes[i].Expanded

\* C1: the tree list is always a pre-order listing: the first node has depth
\* 0, depth grows by at most one from a node to the next, and only a node
\* marked expanded is immediately followed by a deeper node.
C1_TreeIsPreOrder == PreOrder(treeNodes)

\* C5: state shared with the loop is changed only by updates that the loop
\* runs, never directly by a goroutine that made a store call.
C5_GoroutinesNeverWrite == taskWrote = {}

\* C7: when a store call fails, an entry with status "error" is logged and
\* the panels, the selection and the focus are as they were before the
\* user action that issued the call.
C7_FailureChangesNothing ==
    lastFailed # Nil =>
        /\ Last(commandHistory).status = "error"
        /\ UIState(G) = lastFailed[1]

(***************************************************************************)
(* Claims about the focus (SpecFocus).                                     *)
(***************************************************************************)
\* the panel right of a list panel in the cycle projects, collections,
\* tree; the details panel has no neighbour
RightOf(column) ==
    CASE column = "projects" -> "collections"
      [] column = "collections" -> "tree"
      [] column = "tree" -> "projects"
      [] OTHER -> column

LeftOf(column) ==
    CASE column = "projects" -> "tree"
      [] column = "collections" -> "projects"
      [] column = "tree" -> "collections"
      [] OTHER -> column

\* C8: move-left and move-right take the focus from a list panel to its
\* neighbour in the cycle projects, collections, tree (reversed for left),
\* never to the details panel, and leave it where it is on details.
C8_LeftRightCycle ==
    [][/\ lastRan' = <<H("doColumnRight")>> =>
            currentColumn' = RightOf(currentColumn)
       /\ lastRan' = <<H("doColumnLeft")>> =>
            currentColumn' = LeftOf(currentColumn)]_vars

\* move-left or move-right has just run with the focus on details
C8_Witness ==
    /\ currentColumn = "details"
    /\ lastRan \in {<<H("doColumnLeft")>>, <<H("doColumnRight")>>}

\* C9: while the focus is on details, previousColumn is the panel that had
\* the focus when details was entered, by whichever key or click.
C9_PreviousIsEntryPanel ==
    currentColumn = "details" => previousColumn = enteredFrom

\* C10: Esc on details, entered from the tree with select mode on, puts the
\* focus back on the tree and keeps select mode, the anchor and the
\* selected set.
C10_EscKeepsSelection ==
    [][(/\ currentColumn = "details"
        /\ enteredFrom = "tree"
        /\ selectMode
        /\ lastRan' = <<H("doEscape")>>)
       => /\ currentColumn' = "tree"
          /\ selectMode'
          /\ selectStartIdx' = selectStartIdx
          /\ selectedDocs' = selectedDocs]_vars

(***************************************************************************)
(* Claims about select mode and the loop (SpecSelect).                     *)
(***************************************************************************)
\* C2: while select mode is on, selectedDocs is exactly the set of indices
\* of documents in the filtered tree view between the anchor and the
\* cursor, however the cursor was moved and however the view changed.
C2_SelectedIsRange ==
    selectMode =>
        selectedDocs = SelectRange(getFilteredTreeNodes(G), selectStartIdx,
                                   selectedTreeIdx)

\* C6: no handler running on the loop waits for a store call: the loop is
\* always free to take the next key.
C6_LoopNeverWaits == loop.pc = "idle"

(***************************************************************************)
(* The filter engine: typing, committing and cancelling a filter on any    *)
(* panel, with the moves between panels and select mode (SpecFilter).      *)
(***************************************************************************)
DoStartFilter == KeyStep(H("doStartFilter"), doStartFilter(Stale(G)))
MakeFilterCharAction ==
    \E ch \in FilterChars :
        KeyStep(HC("makeFilterCharAction", ch),
                makeFilterCharAction(Stale(G), ch))
DoFilterBackspace ==
    KeyStep(H("doFilterBackspace"), doFilterBackspace(Stale(G)))
FilterCommit == KeyStep(H("filterCommit"), commitFilter(Stale(G)))
FilterCursorLeft == KeyStep(H("filterCursorLeft"), filterCursorLeft(Stale(G)))
FilterCursorRight ==
    KeyStep(H("filterCursorRight"), filterCursorRight(Stale(G)))

\* document c/a is expanded and the focus is on one of the three list panels
InitFilter ==
    \E column \in {"projects", "collections", "tree"} :
        InitFrom([DocumentOpen EXCEPT !.currentColumn = column])

NextFilter ==
    \/ DoStartFilter
    \/ MakeFilterCharAction
    \/ DoFilterBackspace
    \/ FilterCommit
    \/ FilterCursorLeft
    \/ FilterCursorRight
    \/ DoEscape
    \/ DoNextColumn
    \/ DoCursorDown
    \/ DoToggleSelectMode

SpecFilter == InitFilter /\ [][NextFilter]_vars

\* C11: while a filter is being typed and neither the help popup nor the
\* command modal is open, Esc ends filter-input editing and discards the
\* typed text, on whichever panel and with select mode on or off.
C11_EscCancelsFilterInput ==
    [][(/\ filterInputActive
        /\ ~helpOpen /\ ~modalOpen
        /\ lastRan' = <<H("doEscape")>>)
       => /\ ~filterInputActive'
          /\ filterInputText' = << >>]_vars

(***************************************************************************)
(* Expand and collapse under a tree filter (SpecLookup).                   *)
(***************************************************************************)
\* the cursor is on collection c/a/o and Space was pressed: its
\* ListDocuments is in flight
InitLookup ==
    InitFrom([logCommand(DocumentOpen,
                         <<"ListDocuments", <<"c", "a", "o">>>>, "running")
                EXCEPT !.selectedTreeIdx = 1,
                       !.tasks = << [kind |-> "expandCollection",
                                     pc |-> "ListDocuments",
                                     nodePath |-> <<"c", "a", "o">>,
                                     nodeName |-> <<"o">>,
                                     nodeDepth |-> 1, nodeIdx |-> 1,
                                     fresh |-> FALSE] >>])

NextLookup ==
    \/ DoCursorUp
    \/ DoCursorDown
    \/ DoSpace
    \/ DoStartFilter
    \/ MakeFilterCharAction
    \/ FilterCommit
    \/ GoroutineStep
    \/ LoopUpdate

SpecLookup == InitLookup /\ [][NextLookup]_vars

\* whether the node at index i of treeNodes is shown under the tree filter
ShownInTree(g, i) ==
    LET filter == ActiveFilter(g, "tree", g.treeFilter)
        n == At(g.treeNodes, i)
    IN MatchesFilter(n.Name, filter) \/ MatchesFilter(PathText(n.Path), filter)

\* the index in treeNodes of the node displayed at row k of the tree panel
DisplayedAt(g, k) ==
    CHOOSE i \in 0..(Len(g.treeNodes) - 1) :
        /\ ShownInTree(g, i)
        /\ Cardinality({j \in 0..(i - 1) : ShownInTree(g, j)}) = k

\* C12: with a tree filter active, the index that the reverse lookup by path
\* gives for row k of the filtered view is the index of the node displayed
\* at row k, for every row.
C12_LookupFindsDisplayedNode ==
    ActiveFilter(G, "tree", treeFilter) # << >> =>
        \A k \in 0..(Len(getFilteredTreeNodes(G)) - 1) :
            getOriginalTreeNodeIndex(G, k) = DisplayedAt(G, k)

(***************************************************************************)
(* The tree operations applied on their own: the splice of selectTreeNode  *)
(* (expand) and the collapse branch of selectTreeNode (collapseNode, then  *)
(* the node is marked not expanded), on node lists drawn from a bounded    *)
(* set.                                                                    *)
(***************************************************************************)
MaxNodes == 3
MaxDepth == 2
MaxChildren == 2

NodeNames == <<"x", "y", "z", "u", "v">>
ChildNames == <<"a", "b", "d", "e">>

\* the node lists of length n: node k is named NodeNames[k]; the first node
\* is a root, a node is at most one level below its predecessor, and a node
\* directly followed by a deeper one is expanded
TreeLists(n) ==
    {t \in [1..n -> [Path : {<<"c">>}, Name : {<<"x">>}, Type : {"collection", "document"},
                     Depth : 0..MaxDepth, HasChildren : {TRUE}, Expanded : BOOLEAN]] :
        /\ t[1].Depth = 0
        /\ \A k \in 1..(n - 1) :
              /\ t[k + 1].Depth <= t[k].Depth + 1
              /\ t[k + 1].Depth > t[k].Depth => t[k].Expanded}

NamedTree(t) ==
    [k \in 1..Len(t) |-> [t[k] EXCEPT !.Path = <<"c", NodeNames[k]>>,
                                      !.Name = <<NodeNames[k]>>]]

\* the children selectTreeNode builds for the node: documents of a
\* collection, subcollections of a document, one level below it
ChildrenOf(node, n) ==
    IF node.Type = "collection"
    THEN DocNodes([k \in 1..n |-> Document(node.Path, ChildNames[k])], node.Depth + 1)
    ELSE SubNodes([k \in 1..n |-> [Name |-> <<ChildNames[k]>>,
                                   Path |-> node.Path \o <<ChildNames[k]>>]],
                  node.Depth + 1)

InitRoundTrip ==
    /\ InitGui(DocumentOpen)
    /\ \E n \in 1..MaxNodes : \E t \in TreeLists(n) : \E idx \in 0..(n - 1) :
       \E m \in 1..MaxChildren :
          /\ ~t[idx + 1].Expanded
          /\ probe = [step |-> "input", input |-> NamedTree(t), nodes |-> NamedTree(t),
                      idx |-> idx, children |-> ChildrenOf(NamedTree(t)[idx + 1], m)]

Expand ==
    /\ probe.step = "input"
    /\ probe' = [probe EXCEPT !.step = "expanded",
                              !.nodes = InsertChildren(probe.nodes, probe.idx, probe.children)]
    /\ UNCHANGED guiVars

Collapse ==
    /\ probe.step = "expanded"
    /\ probe' = [probe EXCEPT !.step = "collapsed",
                              !.nodes = [collapseNode(probe.nodes, probe.idx)
                                            EXCEPT ![probe.idx + 1].Expanded = FALSE]]
    /\ UNCHANGED guiVars

NextRoundTrip == Expand \/ Collapse

SpecRoundTrip == InitRoundTrip /\ [][NextRoundTrip]_vars

\* C13: expanding a collapsed node with a non-empty list of children and
\* then collapsing it gives back the node list from before the expand: the
\* same nodes in the same order with the same depths and expanded flags
C13_ExpandCollapseRoundTrip ==
    probe.step = "collapsed" => probe.nodes = probe.input

\* two children were spliced in front of a following node and removed again
C13_Witness ==
    /\ probe.step = "collapsed"
    /\ Len(probe.children) = 2
    /\ probe.idx + 1 < Len(probe.input)
    /\ probe.nodes = probe.input

(***************************************************************************)
(* The filtered views applied on their own: the document scenario with     *)
(* filter texts drawn from a bounded set, committed on a panel or typed    *)
(* into the edit buffer of a panel.                                        *)
(***************************************************************************)
MaxText == 2

TextAlphabet == {"a", "A", "O", "Q", "/"}

RECURSIVE TextsUpTo(_)
TextsUpTo(n) ==
    IF n = 0 THEN {<< >>}
    ELSE LET shorter == TextsUpTo(n - 1) IN
         shorter \cup {Append(t, ch) : t \in shorter, ch \in TextAlphabet}

Panels == {"projects", "collections", "tree", "details"}

\* the committed filter of one panel set to text
WithCommitted(g, panel, text) ==
    CASE panel = "projects" -> [g EXCEPT !.projectsFilter = text]
      [] panel = "collections" -> [g EXCEPT !.collectionsFilter = text]
      [] panel = "tree" -> [g EXCEPT !.treeFilter = text]
      [] panel = "details" -> [g EXCEPT !.detailsFilter = text]

\* startFilter has cleared the committed filter of the edited panel and
\* the buffer holds the text typed since; "" is no panel edited
WithEdited(g, edited, buffer) ==
    IF edited = "" THEN g
    ELSE [WithCommitted(g, edited, << >>)
            EXCEPT !.filterInputActive = TRUE,
                   !.filterInputPanel = edited,
                   !.filterInputText = buffer,
                   !.filterCursorPos = Len(buffer),
                   !.currentColumn = edited]

\* one panel carries the committed filter text; either no panel is edited,
\* or a panel is edited with the buffer text
InitDerive ==
    \E panel \in Panels : \E text \in TextsUpTo(MaxText) :
    \E edited \in Panels \cup {""} :
    \E buffer \in IF edited = "" THEN {<< >>} ELSE TextsUpTo(MaxText) :
       /\ InitGui(WithEdited(WithCommitted(DocumentOpen, panel, text),
                             edited, buffer))
       /\ probe = [step |-> "input"]

Derive ==
    /\ probe.step = "input"
    /\ probe' = [step |-> "derived",
                 projects |-> getFilteredProjects(G),
                 collections |-> getFilteredCollections(G),
                 tree |-> getFilteredTreeNodes(G),
                 details |-> getDetailsFilter(G)]
    /\ UNCHANGED guiVars

NextDerive == Derive

SpecDerive == InitDerive /\ [][NextDerive]_vars

\* the same letter, ignoring case
SameLetter(x, y) ==
    \/ x = y
    \/ {x, y} \in {{"a", "A"}, {"b", "B"}, {"f", "F"}, {"o", "O"}, {"p", "P"}, {"q", "Q"}}

\* text holds sub at some position, ignoring case
HoldsIgnoringCase(text, sub) ==
    \E i \in 0..(Len(text) - Len(sub)) :
        \A k \in 1..Len(sub) : SameLetter(text[i + k], sub[k])

\* the text a panel filters by: the buffer while that panel is edited, the
\* committed filter otherwise
ActiveText(panel) ==
    IF filterInputActive /\ filterInputPanel = panel THEN filterInputText
    ELSE CASE panel = "projects" -> projectsFilter
           [] panel = "collections" -> collectionsFilter
           [] panel = "tree" -> treeFilter
           [] panel = "details" -> detailsFilter

\* view is the sub-sequence, in order, of the elements of list at the
\* positions in kept
IsSubSequenceAt(view, list, kept) ==
    /\ Len(view) = Cardinality(kept)
    /\ \A i \in kept :
          view[Cardinality({j \in kept : j <= i})] = list[i]

\* C14: each panel's filtered view is the order-preserving sub-sequence of
\* its backing list whose display text (name; also ID for projects, path for
\* tree nodes) contains the active text ignoring case, the active text being
\* the edit buffer while that panel is edited and the committed filter
\* otherwise; with an empty active text the view is the whole backing list
C14_FilteredViewIsSubSequence ==
    probe.step = "derived" =>
        /\ IsSubSequenceAt(probe.projects, projects,
              {i \in 1..Len(projects) :
                  \/ HoldsIgnoringCase(projects[i].DisplayName, ActiveText("projects"))
                  \/ HoldsIgnoringCase(projects[i].ID, ActiveText("projects"))})
        /\ IsSubSequenceAt(probe.collections, collections,
              {i \in 1..Len(collections) :
                  HoldsIgnoringCase(collections[i].Name, ActiveText("collections"))})
        /\ IsSubSequenceAt(probe.tree, treeNodes,
              {i \in 1..Len(treeNodes) :
                  \/ HoldsIgnoringCase(treeNodes[i].Name, ActiveText("tree"))
                  \/ HoldsIgnoringCase(PathText(treeNodes[i].Path), ActiveText("tree"))})
        /\ probe.details = ActiveText("details")
        /\ ActiveText("projects") = << >> => probe.projects = projects
        /\ ActiveText("collections") = << >> => probe.collections = collections
        /\ ActiveText("tree") = << >> => probe.tree = treeNodes

\* the tree is edited with a buffer in upper case that keeps some nodes, by
\* their path, and drops another
C14_Witness ==
    /\ probe.step = "derived"
    /\ filterInputActive /\ filterInputPanel = "tree"
    /\ filterInputText = <<"A", "/">>
    /\ Len(probe.tree) > 0 /\ Len(probe.tree) < Len(treeNodes)

(***************************************************************************)
(* Committing a filter (the Enter key while a filter is typed), checked    *)
(* on the filter keys.                                                     *)
(***************************************************************************)
\* the committed filter and the index (for details: the scroll position)
\* of each panel
CommittedOf(g, panel) ==
    CASE panel = "projects" -> g.projectsFilter
      [] panel = "collections" -> g.collectionsFilter
      [] panel = "tree" -> g.treeFilter
      [] panel = "details" -> g.detailsFilter

IndexOf(g, panel) ==
    CASE panel = "projects" -> g.selectedProjectIndex
      [] panel = "collections" -> g.selectedCollectionIdx
      [] panel = "tree" -> g.selectedTreeIdx
      [] panel = "details" -> g.detailsScrollPos

\* G in the next state, for the fields the filter commit is about
Committed ==
    [projectsFilter |-> projectsFilter', collectionsFilter |-> collectionsFilter',
     treeFilter |-> treeFilter', detailsFilter |-> detailsFilter',
     selectedProjectIndex |-> selectedProjectIndex',
     selectedCollectionIdx |-> selectedCollectionIdx',
     selectedTreeIdx |-> selectedTreeIdx', detailsScrollPos |-> detailsScrollPos']

\* C15: committing a filter edit sets the edited panel's committed filter to
\* the buffer text, ends editing with the buffer and cursor cleared, and
\* resets that panel's index to 0; the committed filters and indices of all
\* other panels stay as they were
C15_CommitFilter ==
    [][(filterInputActive /\ lastRan' = <<H("filterCommit")>>) =>
          /\ CommittedOf(Committed, filterInputPanel) = filterInputText
          /\ ~filterInputActive'
          /\ filterInputText' = << >>
          /\ filterCursorPos' = 0
          /\ IndexOf(Committed, filterInputPanel) = 0
          /\ \A panel \in Panels \ {filterInputPanel} :
                /\ CommittedOf(Committed, panel) = CommittedOf(G, panel)
                /\ IndexOf(Committed, panel) = IndexOf(G, panel)]_vars

\* a text typed on the tree was committed
C15_Witness ==
    /\ lastRan = <<H("filterCommit")>>
    /\ treeFilter = <<"a">>
    /\ ~filterInputActive
    /\ filterInputText = << >>
    /\ selectedTreeIdx = 0

(***************************************************************************)
(* The keys of the query builder, from the builder opened on the           *)
(* collection of the document scenario.                                    *)
(***************************************************************************)
MaxFilters == 2

\* the texts left in the input view when an edit is committed
QueryEditContents == {<<"7">>}

\* the texts left in the input view of the limit cell: numbers that are
\* positive, zero and negative, and texts that are no number
QueryLimitContents ==
    {<<"7">>, <<"+", "7">>, <<" ", "7">>, << >>, <<"x">>, <<"0">>, <<"-", "1">>,
     <<"7", "x">>}

\* the number of fields of the draft that an edit or a choice has set
MaxEdited == 1

EditedFields(g) ==
    LET Count(Differs(_)) ==
            Cardinality({i \in 1..Len(g.queryFilters) : Differs(g.queryFilters[i])})
    IN Count(LAMBDA f : f.Field # << >>) + Count(LAMBDA f : f.Value # << >>)
       + Count(LAMBDA f : f.Operator # "==") + Count(LAMBDA f : f.ValueType # "auto")
       + (IF g.queryOrderBy # << >> THEN 1 ELSE 0)
       + (IF g.queryOrderDir = "DESC" THEN 1 ELSE 0)
       + (IF g.queryLimit # ListLimit THEN 1 ELSE 0)

\* a key of the builder while it navigates the grid. How the keys reach the
\* input view of an edited field and the option popup is not in the sources:
\* an edited field takes Enter and Esc, an open popup takes its own keys,
\* and the grid takes none of them meanwhile.
QueryKeyStep(h, g2) ==
    /\ ~queryEditMode
    /\ ~querySelectOpen
    /\ KeyStep(h, g2)

DoOpenQuery == KeyStep(H("doOpenQuery"), doOpenQuery(Stale(G)))
QueryClose == QueryKeyStep(H("queryClose"), queryClose(Stale(G)))
QueryMoveUp == QueryKeyStep(H("queryMoveUp"), queryMoveUp(Stale(G)))
QueryMoveDown == QueryKeyStep(H("queryMoveDown"), queryMoveDown(Stale(G)))
QueryMoveLeft == QueryKeyStep(H("queryMoveLeft"), queryMoveLeft(Stale(G)))
QueryMoveRight == QueryKeyStep(H("queryMoveRight"), queryMoveRight(Stale(G)))
QueryNextField == QueryKeyStep(H("queryNextField"), queryNextField(Stale(G)))
QueryEnter == QueryKeyStep(H("queryEnter"), queryEnter(Stale(G)))
QueryInsertChar ==
    \E ch \in {"a", "d"} :
        /\ ch = "a" => Len(queryFilters) < MaxFilters
        /\ QueryKeyStep(HC("queryInsertChar", ch), queryInsertChar(Stale(G), ch))

\* the last item the highlight of the option popup is moved to
MaxSelectIdx == 1

\* a key of the option popup
QuerySelectStep(h, g2) ==
    /\ running
    /\ loop.pc = "idle"
    /\ querySelectOpen
    /\ <<h>> \in Dispatch[ContextQuerySelect]
    /\ LET g3 == [Finish(G, g2) EXCEPT !.lastRan = <<h>>] IN
       Bounded(g3) /\ EditedFields(g3) <= MaxEdited /\ Commit(g3)

QuerySelectMoveDown ==
    /\ querySelectIdx < MaxSelectIdx
    /\ QuerySelectStep(H("querySelectMoveDown"), querySelectMoveDown(Stale(G)))
QuerySelectConfirm ==
    QuerySelectStep(H("querySelectConfirm"), querySelectConfirm(Stale(G)))
QuerySelectClose ==
    QuerySelectStep(H("querySelectClose"), querySelectClose(Stale(G)))

\* Enter or Esc typed into the input view of a field that is edited
QueryInputEditor ==
    /\ running
    /\ loop.pc = "idle"
    /\ queryModalOpen /\ queryEditMode
    /\ \E key \in {"Enter", "Esc"} :
       \E content \in IF queryActiveRow = queryRowLimit THEN QueryLimitContents
                       ELSE QueryEditContents :
          LET h == [fn |-> "queryInputEditor", ch |-> key, content |-> content]
              g3 == [Finish(G, queryInputEditor(Stale(G), key, content))
                        EXCEPT !.lastRan = <<h>>]
          IN Bounded(g3) /\ EditedFields(g3) <= MaxEdited /\ Commit(g3)

\* F was pressed on the document c/a: the builder is open on collection c
InitQuery ==
    InitFrom([logCommand(DocumentOpen, <<"Query", <<"c">>>>, "success")
                EXCEPT !.queryCollection = <<"c">>, !.queryNodeIdx = -1,
                       !.queryModalOpen = TRUE, !.queryLimit = ListLimit,
                       !.queryOrderDir = "ASC", !.logged = 1])

NextQuery == DoOpenQuery \/ QueryClose \/ QueryMoveUp \/ QueryMoveDown
             \/ QueryMoveLeft \/ QueryMoveRight \/ QueryNextField \/ QueryEnter
             \/ QueryInsertChar \/ QuerySelectMoveDown \/ QuerySelectConfirm
             \/ QuerySelectClose \/ QueryInputEditor \/ GoroutineStep \/ LoopUpdate

SpecQuery == InitQuery /\ [][NextQuery]_vars

\* the rows of the grid
QueryRows == {queryRowFilters, queryRowOrderBy, queryRowLimit, queryRowButtons}

\* C16: while the query builder is open, whatever cursor moves, next-field
\* steps, filter additions and removals, edits, clear and close/re-open came
\* before, the cursor column is between 0 and the last column of the cursor
\* row, and the cursor row is a row of the grid
C16_QueryCursorInGrid ==
    queryModalOpen =>
        /\ queryActiveRow \in QueryRows
        /\ 0 <= queryActiveCol
        /\ queryActiveCol <= getMaxColForRow(G)

\* the cursor stood on the second filter, which was removed
C16_Witness ==
    /\ queryModalOpen
    /\ lastRan = <<HC("queryInsertChar", "d")>>
    /\ Len(queryFilters) = 1
    /\ queryActiveRow = queryRowFilters
    /\ queryActiveCol = 3

(***************************************************************************)
(* Translation of a query draft into a structured query request            *)
(* (pkg/firebase/firestore.go).  A Go map is a function from its keys; a   *)
(* draft value is the text typed in the builder, which fmt.Sprintf("%v")   *)
(* leaves as it is.                                                        *)
(***************************************************************************)
Text(word) == word

EmptyMap == [key \in {} |-> Nil]

\* convertOperator converts user-friendly operators to Firestore REST API
\* operators
convertOperator(op) ==
    CASE op \in {"==", "EQUAL"} -> "EQUAL"
      [] op \in {"!=", "NOT_EQUAL"} -> "NOT_EQUAL"
      [] op \in {"<", "LESS_THAN"} -> "LESS_THAN"
      [] op \in {"<=", "LESS_THAN_OR_EQUAL"} -> "LESS_THAN_OR_EQUAL"
      [] op \in {">", "GREATER_THAN"} -> "GREATER_THAN"
      [] op \in {">=", "GREATER_THAN_OR_EQUAL"} -> "GREATER_THAN_OR_EQUAL"
      [] op \in {"in", "IN"} -> "IN"
      [] op \in {"not-in", "NOT_IN"} -> "NOT_IN"
      [] op \in {"array-contains", "ARRAY_CONTAINS"} -> "ARRAY_CONTAINS"
      [] op \in {"array-contains-any", "ARRAY_CONTAINS_ANY"} ->
            "ARRAY_CONTAINS_ANY"
      [] OTHER -> "EQUAL"

\* position of the first character of text that is in chars, 0 when none
FirstOf(text, chars) ==
    IF \E k \in 1..Len(text) : text[k] \in chars
    THEN CHOOSE k \in 1..Len(text) :
            /\ text[k] \in chars
            /\ \A j \in 1..(k - 1) : text[j] \notin chars
    ELSE 0

AllDigits(text) == \A k \in 1..Len(text) : IsDigit(text[k])

\* a float64 as its class, sign, and decimal mantissa and exponent without
\* trailing zeros (the rounding to the nearest binary double is left out)
Float(class, neg, mantissa, exp10) ==
    [class |-> class, neg |-> neg, mantissa |-> mantissa, exp10 |-> exp10]

RECURSIVE Normal(_, _, _)
Normal(neg, mantissa, exp10) ==
    IF mantissa = 0 THEN Float("finite", neg, 0, 0)
    ELSE IF mantissa % 10 = 0 THEN Normal(neg, mantissa \div 10, exp10 + 1)
    ELSE Float("finite", neg, mantissa, exp10)

\* strconv.ParseFloat(s, 64) on texts without a base prefix: the words
\* "inf", "infinity" (optionally signed) and "nan" in any letter case, or
\* an optional sign, decimal digits with at most one point and at least one
\* digit, and an optional exponent "e" with its own optional sign and at
\* least one digit; a value beyond the float64 range (math.MaxFloat64 is
\* 1.79e308, a number of 309 digits) is an error; Nil is the error
ParseFloat(text) ==
    LET signed == text # << >> /\ text[1] \in {"+", "-"}
        neg == signed /\ text[1] = "-"
        body == IF signed THEN Tail(text) ELSE text
        ePos == FirstOf(body, {"e", "E"})
        mant == IF ePos = 0 THEN body ELSE SubSeq(body, 1, ePos - 1)
        expo == IF ePos = 0 THEN << >> ELSE SubSeq(body, ePos + 1, Len(body))
        dot == FirstOf(mant, {"."})
        whole == IF dot = 0 THEN mant ELSE SubSeq(mant, 1, dot - 1)
        frac == IF dot = 0 THEN << >> ELSE SubSeq(mant, dot + 1, Len(mant))
        exponent == Atoi(expo)
        f == Normal(neg, DigitsValue(whole \o frac),
                    (IF ePos = 0 THEN 0 ELSE exponent[1]) - Len(frac))
    IN IF ToLower(body) \in {Text(<<"i", "n", "f">>),
                             Text(<<"i", "n", "f", "i", "n", "i", "t", "y">>)}
       THEN Some(Float("inf", neg, 0, 0))
       ELSE IF ToLower(text) = Text(<<"n", "a", "n">>)
       THEN Some(Float("nan", FALSE, 0, 0))
       ELSE IF \/ ~AllDigits(whole) \/ ~AllDigits(frac)
               \/ Len(whole) + Len(frac) = 0
               \/ (ePos # 0 /\ exponent = Nil)
       THEN Nil
       ELSE IF f.mantissa # 0 /\ Len(Itoa(f.mantissa)) + f.exp10 > 309
       THEN Nil
       ELSE Some(f)

\* the auto-detection of toFirestoreValue: null, boolean, integer, float,
\* string, the first that fits the trimmed text
autoDetectFloatFirst(value) ==
    LET strVal == TrimSpace(value)
        lower == ToLower(strVal)
        i == Atoi(strVal)
        f == ParseFloat(strVal)
    IN IF strVal = Text(<<"n", "u", "l", "l">>) \/ strVal = << >>
       THEN ("nullValue" :> Nil)
       ELSE IF lower = Text(<<"t", "r", "u", "e">>)
       THEN ("booleanValue" :> TRUE)
       ELSE IF lower = Text(<<"f", "a", "l", "s", "e">>)
       THEN ("booleanValue" :> FALSE)
       ELSE IF f # Nil THEN ("doubleValue" :> f[1])
       ELSE IF i # Nil THEN ("integerValue" :> Itoa(i[1]))
       ELSE ("stringValue" :> strVal)
autoDetect(value) ==
    LET strVal == TrimSpace(value)
        lower == ToLower(strVal)
        i == Atoi(strVal)
        f == ParseFloat(strVal)
    IN IF strVal = Text(<<"n", "u", "l", "l">>) \/ strVal = << >>
       THEN ("nullValue" :> Nil)
       ELSE IF lower = Text(<<"t", "r", "u", "e">>)
       THEN ("booleanValue" :> TRUE)
       ELSE IF lower = Text(<<"f", "a", "l", "s", "e">>)
       THEN ("booleanValue" :> FALSE)
       ELSE IF i # Nil THEN ("integerValue" :> Itoa(i[1]))
       ELSE IF f # Nil THEN ("doubleValue" :> f[1])
       ELSE ("stringValue" :> strVal)

\* strings.Split(s, ",")
RECURSIVE SplitComma(_)
SplitComma(text) ==
    LET comma == FirstOf(text, {","})
    IN IF comma = 0 THEN <<text>>
       ELSE <<SubSeq(text, 1, comma - 1)>>
            \o SplitComma(SubSeq(text, comma + 1, Len(text)))

\* parseArrayValue parses a comma-separated string into a Firestore
\* arrayValue; each element is auto-typed
parseArrayValue(s) ==
    LET parts == SplitComma(s)
        kept == SelectSeq([k \in 1..Len(parts) |-> TrimSpace(parts[k])],
                          LAMBDA part : part # << >>)
    IN ("arrayValue" :>
          ("values" :> [k \in 1..Len(kept) |-> autoDetect(kept[k])]))

\* toFirestoreValue converts a draft value to Firestore's typed value
\* format: an explicit type forces the representation, any other type
\* auto-detects
toFirestoreValue(v, valueType) ==
    LET strVal == v
    IN CASE valueType = "string" -> ("stringValue" :> strVal)
         [] valueType = "integer" -> ("integerValue" :> strVal)
         [] valueType = "double" -> ("doubleValue" :> strVal)
         [] valueType = "boolean" ->
               ("booleanValue" :>
                  (ToLower(strVal) = Text(<<"t", "r", "u", "e">>)
                     \/ strVal = <<"1">>))
         [] valueType = "null" -> ("nullValue" :> Nil)
         [] valueType = "array" -> parseArrayValue(strVal)
         [] OTHER -> autoDetect(strVal)

\* buildFieldFilter creates a field filter for a QueryFilter
buildFieldFilter(f) ==
    ("fieldFilter" :>
       [field |-> ("fieldPath" :> f.Field),
        op |-> convertOperator(f.Operator),
        value |-> toFirestoreValue(f.Value, f.ValueType)])

\* the direction of the order entry
dirShort(orderDir) ==
    IF orderDir = "DESC" THEN "DESCENDING" ELSE "ASCENDING"
dir(orderDir) ==
    IF orderDir = "DESC" \/ orderDir = "DESCENDING" THEN "DESCENDING"
    ELSE "ASCENDING"

QueryOptions(filters, orderBy, orderDir, limit) ==
    [Filters |-> filters, OrderBy |-> orderBy, OrderDir |-> orderDir,
     Limit |-> limit]

\* buildStructuredQuery creates a Firestore structured query from
\* QueryOptions; the collection ID is the last segment of the path
buildStructuredQueryComposite(collectionPath, opts) ==
    LET collectionID ==
            IF collectionPath = << >> THEN "" ELSE Last(collectionPath)
        where ==
            IF Len(opts.Filters) > 0
            THEN ("where" :>
                    ("compositeFilter" :>
                       [op |-> "AND",
                        filters |-> [k \in 1..Len(opts.Filters) |->
                                        buildFieldFilter(opts.Filters[k])]]))
            ELSE EmptyMap
        orderBy ==
            IF opts.OrderBy # << >>
            THEN ("orderBy" :>
                    <<[field |-> ("fieldPath" :> opts.OrderBy),
                       direction |-> dir(opts.OrderDir)]>>)
            ELSE EmptyMap
        limit == IF opts.Limit > 0 THEN ("limit" :> opts.Limit) ELSE EmptyMap
    IN ("from" :> <<("collectionId" :> collectionID)>>)
         @@ where @@ orderBy @@ limit
buildStructuredQuery(collectionPath, opts) ==
    LET collectionID ==
            IF collectionPath = << >> THEN "" ELSE Last(collectionPath)
        where ==
            IF Len(opts.Filters) > 0
            THEN IF Len(opts.Filters) = 1
                 THEN ("where" :> buildFieldFilter(opts.Filters[1]))
                 ELSE ("where" :>
                         ("compositeFilter" :>
                            [op |-> "AND",
                             filters |-> [k \in 1..Len(opts.Filters) |->
                                            buildFieldFilter(opts.Filters[k])]]))
            ELSE EmptyMap
        orderBy ==
            IF opts.OrderBy # << >>
            THEN ("orderBy" :>
                    <<[field |-> ("fieldPath" :> opts.OrderBy),
                       direction |-> dir(opts.OrderDir)]>>)
            ELSE EmptyMap
        limit == IF opts.Limit > 0 THEN ("limit" :> opts.Limit) ELSE EmptyMap
    IN ("from" :> <<("collectionId" :> collectionID)>>)
         @@ where @@ orderBy @@ limit

(***************************************************************************)
(* Translation of bounded drafts.                                          *)
(***************************************************************************)
MaxDraftFilters == 3

\* filters a draft is made of: a builder default, an explicit type, and an
\* operator and a value type outside the tables
DraftFilters ==
    {QueryFilter(<<"f">>, "==", <<"1">>, "auto"),
     QueryFilter(<<"g">>, "<", <<"x">>, "string"),
     QueryFilter(<<"f">>, "~", << >>, "date")}

RECURSIVE FilterLists(_)
FilterLists(n) ==
    IF n = 0 THEN {<< >>}
    ELSE FilterLists(n - 1)
         \cup {Append(list, f) : list \in {l \in FilterLists(n - 1) :
                                             Len(l) = n - 1},
                                 f \in DraftFilters}

DraftOrderBys == {<< >>, <<"f">>}
DraftOrderDirs == {"", "ASC", "DESC", "DESCENDING", "desc"}
DraftLimits == {-1, 0, ListLimit}
DraftPaths == {<<"c">>, <<"c", "a", "o">>}

InitTranslate ==
    /\ InitGui(DocumentOpen)
    /\ \E path \in DraftPaths, filters \in FilterLists(MaxDraftFilters),
          orderBy \in DraftOrderBys, orderDir \in DraftOrderDirs,
          limit \in DraftLimits :
          probe = [step |-> "draft", path |-> path,
                   opts |-> QueryOptions(filters, orderBy, orderDir, limit)]

\* RunQuery builds the request of the draft
Translate ==
    /\ probe.step = "draft"
    /\ probe' = [step |-> "translated", path |-> probe.path,
                 opts |-> probe.opts,
                 request |-> buildStructuredQuery(probe.path, probe.opts)]
    /\ UNCHANGED guiVars

NextTranslate == Translate

SpecTranslate == InitTranslate /\ [][NextTranslate]_vars

\* C17: the request has no filter clause exactly when the draft has no
\* filter; one filter is emitted directly as its field filter; two or more
\* are one AND-composite holding one field filter per draft filter, in
\* draft order, and nothing else
C17_FilterClause ==
    probe.step = "translated" =>
       LET filters == probe.opts.Filters
           request == probe.request
       IN /\ ("where" \in DOMAIN request) <=> Len(filters) > 0
          /\ Len(filters) = 1 =>
                /\ DOMAIN request["where"] = {"fieldFilter"}
                /\ request["where"] = buildFieldFilter(filters[1])
          /\ Len(filters) >= 2 =>
                /\ DOMAIN request["where"] = {"compositeFilter"}
                /\ DOMAIN request["where"]["compositeFilter"]
                      = {"op", "filters"}
                /\ request["where"]["compositeFilter"].op = "AND"
                /\ LET clauses == request["where"]["compositeFilter"].filters
                   IN /\ Len(clauses) = Len(filters)
                      /\ \A k \in 1..Len(filters) :
                            /\ DOMAIN clauses[k] = {"fieldFilter"}
                            /\ clauses[k] = buildFieldFilter(filters[k])

C17_Witness ==
    /\ probe.step = "translated"
    /\ Len(probe.opts.Filters) = 3
    /\ probe.opts.Filters[1] # probe.opts.Filters[2]
    /\ "compositeFilter" \in DOMAIN probe.request["where"]
    /\ probe.request["where"]["compositeFilter"].filters[2]
          ["fieldFilter"].field["fieldPath"] = <<"g">>

(***************************************************************************)
(* Translation of one draft filter.  The builder commits the trimmed text  *)
(* of its input (commitQueryEditFromView), so the values of a draft have   *)
(* no blank at either end.                                                 *)
(***************************************************************************)
DraftValues ==
    {<< >>,
     <<"n", "u", "l", "l">>,
     <<"N", "U", "L", "L">>,
     <<"t", "r", "u", "e">>,
     <<"T", "R", "U", "E">>,
     <<"F", "a", "l", "s", "e">>,
     <<"t", "r", "u", "e", "x">>,
     <<"1">>,
     <<"0">>,
     <<"4", "2">>,
     <<"-", "1", "2", "3">>,
     <<"+", "5">>,
     <<"0", "0", "7">>,
     <<"3", ".", "1", "4">>,
     <<".", "5">>,
     <<"5", ".">>,
     <<"1", "e", "5">>,
     <<"1", "E", "-", "2">>,
     <<"1", "e", "9", "9", "9">>,
     <<"-", "0", ".", "0">>,
     <<"i", "n", "f">>,
     <<"-", "I", "n", "f", "i", "n", "i", "t", "y">>,
     <<"N", "a", "N">>,
     <<"h", "e", "l", "l", "o">>,
     <<"-">>,
     <<".">>,
     <<"1", "e">>,
     <<"1", ".", "2", ".", "3">>,
     <<"1", "2", "a">>,
     <<"1", ",", "2">>,
     <<"a", ",", " ", "1", ",", ",", "t", "r", "u", "e">>,
     <<"x", " ", "y">>}

\* the tokens of the operator table, and two outside it
DraftOperators ==
    {"==", "EQUAL", "!=", "NOT_EQUAL", "<", "LESS_THAN", "<=",
     "LESS_THAN_OR_EQUAL", ">", "GREATER_THAN", ">=", "GREATER_THAN_OR_EQUAL",
     "in", "IN", "not-in", "NOT_IN", "array-contains", "ARRAY_CONTAINS",
     "array-contains-any", "ARRAY_CONTAINS_ANY", "unknown", ""}

\* the value types of the builder, the empty one, and one outside the set
DraftValueTypes ==
    {queryValueTypes[k] : k \in 1..Len(queryValueTypes)} \cup {"", "date"}

InitValue ==
    /\ InitGui(DocumentOpen)
    /\ \E operator \in DraftOperators, value \in DraftValues,
          valueType \in DraftValueTypes :
          probe = [step |-> "draft",
                   filter |-> QueryFilter(<<"f">>, operator, value, valueType)]

\* buildStructuredQuery builds the clause of the filter
BuildFieldFilter ==
    /\ probe.step = "draft"
    /\ probe' = [step |-> "built", filter |-> probe.filter,
                 clause |-> buildFieldFilter(probe.filter)]
    /\ UNCHANGED guiVars

NextValue == BuildFieldFilter

SpecValue == InitValue /\ [][NextValue]_vars

BuiltValue == probe.clause["fieldFilter"].value

IsTagged(value, tag) == DOMAIN value = {tag}

\* C18: with value type auto the first rule that applies converts the
\* literal: empty or "null" is null; "true" or "false" in any letter case
\* is a boolean; a literal that parses as a base-10 integer is that
\* integer; one that parses as a float is that double; anything else is
\* the string itself
C18_AutoTypeOrder ==
    (probe.step = "built" /\ probe.filter.ValueType = "auto") =>
       LET literal == probe.filter.Value
           lower == ToLower(literal)
       IN IF literal = << >> \/ literal = <<"n", "u", "l", "l">>
          THEN IsTagged(BuiltValue, "nullValue")
          ELSE IF lower = <<"t", "r", "u", "e">> \/ lower = <<"f", "a", "l", "s", "e">>
          THEN /\ IsTagged(BuiltValue, "booleanValue")
               /\ BuiltValue["booleanValue"] = (lower = <<"t", "r", "u", "e">>)
          ELSE IF Atoi(literal) # Nil
          THEN /\ IsTagged(BuiltValue, "integerValue")
               /\ Atoi(BuiltValue["integerValue"]) = Atoi(literal)
          ELSE IF ParseFloat(literal) # Nil
          THEN /\ IsTagged(BuiltValue, "doubleValue")
               /\ BuiltValue["doubleValue"] = ParseFloat(literal)[1]
          ELSE /\ IsTagged(BuiltValue, "stringValue")
               /\ BuiltValue["stringValue"] = literal

C18_Witness ==
    /\ probe.step = "built"
    /\ probe.filter.ValueType = "auto"
    /\ probe.filter.Value = <<"3", ".", "1", "4">>
    /\ IsTagged(BuiltValue, "doubleValue")
    /\ BuiltValue["doubleValue"] = Float("finite", FALSE, 314, -2)

\* the operators of the Firestore REST API the table maps to
CanonicalOperators ==
    {"EQUAL", "NOT_EQUAL", "LESS_THAN", "LESS_THAN_OR_EQUAL", "GREATER_THAN",
     "GREATER_THAN_OR_EQUAL", "IN", "NOT_IN", "ARRAY_CONTAINS",
     "ARRAY_CONTAINS_ANY"}

\* the tokens of the table: the symbolic and the canonical forms
TableOperators ==
    CanonicalOperators
      \cup {"==", "!=", "<", "<=", ">", ">=", "in", "not-in", "array-contains",
            "array-contains-any"}

KnownValueTypes == {queryValueTypes[k] : k \in 1..Len(queryValueTypes)}

ScalarTags ==
    {"nullValue", "booleanValue", "integerValue", "doubleValue",
     "stringValue"}

\* a typed value: one tag and what it holds, an array holding scalars
IsTypedValue(value) ==
    /\ Cardinality(DOMAIN value) = 1
    /\ DOMAIN value \subseteq ScalarTags \cup {"arrayValue"}
    /\ IsTagged(value, "arrayValue") =>
          /\ DOMAIN value["arrayValue"] = {"values"}
          /\ \A k \in 1..Len(value["arrayValue"]["values"]) :
                LET element == value["arrayValue"]["values"][k]
                IN /\ Cardinality(DOMAIN element) = 1
                   /\ DOMAIN element \subseteq ScalarTags

\* json.Marshal of an auto-detected value in RunQuery: a float64 that is
\* NaN or an infinity is an UnsupportedValueError, anything else encodes
Marshals(value) ==
    IsTagged(value, "doubleValue") => value["doubleValue"].class = "finite"

\* json.Marshal of the clause of filter f: the value of an explicit scalar
\* type is a text, a bool or nil; the elements of an array and the value
\* of any other type are auto-detected
MarshalsClause(f, clause) ==
    LET value == clause["fieldFilter"].value
    IN CASE f.ValueType \in {"string", "integer", "double", "boolean", "null"}
               -> TRUE
         [] f.ValueType = "array" ->
               \A k \in 1..Len(value["arrayValue"]["values"]) :
                  Marshals(value["arrayValue"]["values"][k])
         [] OTHER -> Marshals(value)

\* C19: every draft filter is translated, to exactly one field filter
\* clause with the filter's field, a canonical operator and one typed
\* value that the request can carry; an operator token outside the table
\* becomes equality, and a value type outside the known set converts as
\* the default type auto does
C19_TranslationIsTotal ==
    probe.step = "built" =>
       LET f == probe.filter
           clause == probe.clause
       IN /\ DOMAIN clause = {"fieldFilter"}
          /\ DOMAIN clause["fieldFilter"] = {"field", "op", "value"}
          /\ clause["fieldFilter"].field = ("fieldPath" :> f.Field)
          /\ clause["fieldFilter"].op \in CanonicalOperators
          /\ f.Operator \notin TableOperators =>
                clause["fieldFilter"].op = "EQUAL"
          /\ IsTypedValue(BuiltValue)
          /\ f.ValueType \notin KnownValueTypes =>
                BuiltValue = toFirestoreValue(f.Value, "auto")
          /\ MarshalsClause(f, clause)

\* the direction values read as descending: the builder's keyword and the
\* canonical form of the request
DescendingKeywords == {"DESC", "DESCENDING"}

\* C20: the request has an order entry exactly when the draft's orderBy
\* field is non-empty; the entry is one, on that field, descending exactly
\* when the draft's direction is the descending keyword and ascending for
\* every other value, the empty direction included
C20_OrderEntry ==
    probe.step = "translated" =>
       LET opts == probe.opts
           request == probe.request
       IN /\ ("orderBy" \in DOMAIN request) <=> opts.OrderBy # << >>
          /\ "orderBy" \in DOMAIN request =>
                /\ Len(request["orderBy"]) = 1
                /\ request["orderBy"][1].field = ("fieldPath" :> opts.OrderBy)
                /\ request["orderBy"][1].direction
                      = IF opts.OrderDir \in DescendingKeywords
                        THEN "DESCENDING" ELSE "ASCENDING"

C20_Witness ==
    /\ probe.step = "translated"
    /\ probe.opts.OrderBy = <<"f">>
    /\ probe.opts.OrderDir = "DESC"
    /\ "orderBy" \in DOMAIN probe.request
    /\ probe.request["orderBy"][1].direction = "DESCENDING"

(***************************************************************************)
(* Executing the draft.                                                    *)
(***************************************************************************)
\* the builder was opened from the tree, on the collection c of the
\* document c/a or on the subcollection node c/a/o, and Execute was
\* pressed: the goroutine of the query has not started to run
QueryTargets == {<<0, -1, <<"c">>>>, <<1, 1, <<"c", "a", "o">>>>}

InitExecute ==
    \E target \in QueryTargets :
        InitFrom([logCommand(logCommand(DocumentOpen, <<"Query", target[3]>>,
                                        "success"),
                             <<"Query on", target[3]>>, "running")
                    EXCEPT !.selectedTreeIdx = target[1],
                           !.queryCollection = target[3],
                           !.queryNodeIdx = target[2],
                           !.queryLimit = ListLimit,
                           !.queryOrderDir = "ASC",
                           !.queryActiveRow = queryRowButtons,
                           !.treeLoading = TRUE,
                           !.tasks = << [kind |-> "executeQuery",
                                         pc |-> "start",
                                         collectionPath |-> target[3],
                                         nodeIdx |-> target[2],
                                         draft |-> QueryOptions(<< >>, << >>,
                                                                "ASC", ListLimit),
                                         fresh |-> FALSE] >>,
                           !.logged = 0])

NextExecute ==
    \/ DoCursorUp
    \/ DoSpace
    \/ DoOpenQuery
    \/ QueryMoveUp
    \/ QueryEnter
    \/ GoroutineStep
    \/ LoopUpdate

SpecExecute == InitExecute /\ [][NextExecute]_vars

\* Enter is pressed on the Execute button of the builder
ExecutePressed ==
    /\ queryModalOpen
    /\ queryActiveRow = queryRowButtons
    /\ queryActiveCol = 0
    /\ lastRan' = <<H("queryEnter")>>

\* the loop applies the result of a query that succeeded
QueryApplied ==
    /\ updates # << >>
    /\ Head(updates).kind = "applyQuery"
    /\ ~Head(updates).err
    /\ updates' = Tail(updates)

\* C21: executing the builder opened on a top-level collection starts one
\* runQuery on that collection and closes the builder; the request of the
\* call is the translation of the draft of the moment of execute; when the
\* query succeeds the tree is exactly the result documents, at depth 0 and
\* collapsed
C21_ExecuteRunsDraft ==
    /\ [][(ExecutePressed /\ queryNodeIdx = -1) =>
            /\ ~queryModalOpen'
            /\ Len(tasks') = Len(tasks) + 1
            /\ Last(tasks').kind = "executeQuery"
            /\ Last(tasks').collectionPath = queryCollection
            /\ \A i \in 1..Len(tasks) : tasks'[i] = tasks[i]]_vars
    /\ [](\A i \in 1..Len(tasks) :
            (tasks[i].kind = "executeQuery" /\ tasks[i].pc = "RunQuery"
               /\ tasks[i].nodeIdx = -1) =>
              buildStructuredQuery(tasks[i].collectionPath, tasks[i].opts)
                = buildStructuredQuery(tasks[i].collectionPath, tasks[i].draft))
    /\ [][(QueryApplied /\ Head(updates).nodeIdx = -1) =>
            /\ Len(treeNodes') = Len(Head(updates).docs)
            /\ \A k \in 1..Len(treeNodes') :
                  /\ treeNodes'[k].Path = Head(updates).docs[k].Path
                  /\ treeNodes'[k].Depth = 0
                  /\ ~treeNodes'[k].Expanded]_vars

\* C22: when a query on a subcollection node succeeds, the result
\* documents become exactly the children of that collection node, at its
\* depth + 1, and every node outside the node's former subtree keeps its
\* relative position, depth and expanded flag, whatever was applied to the
\* tree since the builder was opened
C22_SubqueryKeepsTheRest ==
    [][(QueryApplied /\ Head(updates).nodeIdx # -1) =>
          LET u == Head(updates) IN
          \E i \in 0..(Len(treeNodes) - 1) :
             /\ At(treeNodes, i).Path = u.collectionPath
             /\ At(treeNodes, i).Type = "collection"
             /\ LET depth == At(treeNodes, i).Depth
                    endIdx == SubtreeEnd(treeNodes, depth, i + 1)
                IN /\ Len(treeNodes')
                        = (i + 1) + Len(u.docs) + (Len(treeNodes) - endIdx)
                   /\ \A k \in 1..i : treeNodes'[k] = treeNodes[k]
                   /\ treeNodes'[i + 1].Path = u.collectionPath
                   /\ treeNodes'[i + 1].Depth = depth
                   /\ \A k \in 1..Len(u.docs) :
                         /\ treeNodes'[i + 1 + k].Path = u.docs[k].Path
                         /\ treeNodes'[i + 1 + k].Depth = depth + 1
                   /\ \A k \in 1..(Len(treeNodes) - endIdx) :
                         treeNodes'[i + 1 + Len(u.docs) + k]
                            = treeNodes[endIdx + k]]_vars

\* Enter is pressed on the Clear button of the builder
ClearPressed ==
    /\ queryModalOpen
    /\ queryActiveRow = queryRowButtons
    /\ queryActiveCol = 1
    /\ lastRan' = <<H("queryEnter")>>

\* C23: Enter on the Clear button leaves the draft with no filter, an empty
\* orderBy field, direction ASC and limit 50, the defaults of a freshly
\* opened builder, and the builder open
C23_ClearResetsDraft ==
    [][ClearPressed =>
          /\ queryFilters' = << >>
          /\ queryOrderBy' = << >>
          /\ queryOrderDir' = "ASC"
          /\ queryLimit' = 50
          /\ queryModalOpen']_vars

\* C24: each time the builder is opened the draft starts empty: it has no
\* filter and no orderBy field, whatever an earlier session left
C24_OpenStartsEmpty ==
    [][(lastRan' = <<H("doOpenQuery")>> /\ queryModalOpen') =>
          /\ queryFilters' = << >>
          /\ queryOrderBy' = << >>]_vars

(***************************************************************************)
(* Committing an edit of the limit cell                                    *)
(***************************************************************************)

\* Enter was typed into the input view, and with it the text of the view
EditCommitted(content) ==
    lastRan' = <<[fn |-> "queryInputEditor", ch |-> "Enter", content |-> content]>>

\* a positive base-10 integer: digits, not all of them zero, after an
\* optional plus sign
PositiveInteger(text) ==
    LET digits == IF text # << >> /\ text[1] = "+" THEN Tail(text) ELSE text
    IN /\ digits # << >>
       /\ AllDigits(digits)
       /\ \E k \in 1..Len(digits) : digits[k] # "0"

\* C25: committing an edit of the limit whose text, without the space around
\* it, is not a positive base-10 integer leaves the limit as it was, returns
\* the builder to grid navigation, and appends no entry to the command log
C25_BadLimitIsDropped ==
    [][\A content \in QueryLimitContents :
          (/\ queryModalOpen /\ queryEditMode
           /\ queryActiveRow = queryRowLimit
           /\ EditCommitted(content)
           /\ ~PositiveInteger(TrimSpace(content)))
          => /\ queryLimit' = queryLimit
             /\ ~queryEditMode'
             /\ queryModalOpen'
             /\ commandHistory' = commandHistory]_vars

\* the text "0" was committed into the limit cell whose limit was 7
C25_Witness ==
    /\ lastRan = <<[fn |-> "queryInputEditor", ch |-> "Enter", content |-> <<"0">>]>>
    /\ queryActiveRow = queryRowLimit
    /\ queryLimit = 7
    /\ ~queryEditMode

(***************************************************************************)
(* Moving over the grid of the builder                                     *)
(***************************************************************************)

\* the key of the builder that ran in this step
QueryKeyRan(fn) == queryModalOpen /\ lastRan' = <<H(fn)>>

\* the cursor is on a cell of a filter: 0 the field, 1 the operator, 2 the
\* value type, 3 the value
OnFilterCell(cell) ==
    /\ queryActiveRow = queryRowFilters
    /\ queryFilters # << >>
    /\ queryActiveCol % 4 = cell

\* C26: "next field" visits the cells in reading order: from the last column
\* of a filter it goes to the first column of the next filter, from the last
\* column of the last filter to the first column of orderBy, from the last
\* column of orderBy to limit, and from limit to the Execute button; from any
\* other cell it goes one column to the right in the same row
C26_NextFieldReadingOrder ==
    [][QueryKeyRan("queryNextField") =>
          LET filter == queryActiveCol \div 4 IN
          CASE OnFilterCell(3) /\ filter + 1 < Len(queryFilters) ->
                  /\ queryActiveRow' = queryRowFilters
                  /\ queryActiveCol' = 4 * (filter + 1)
            [] OnFilterCell(3) /\ filter + 1 = Len(queryFilters) ->
                  /\ queryActiveRow' = queryRowOrderBy
                  /\ queryActiveCol' = 0
            [] queryActiveRow = queryRowOrderBy /\ queryActiveCol = 1 ->
                  /\ queryActiveRow' = queryRowLimit
                  /\ queryActiveCol' = 0
            [] queryActiveRow = queryRowLimit ->
                  /\ queryActiveRow' = queryRowButtons
                  /\ queryActiveCol' = 0
            [] OnFilterCell(0) \/ OnFilterCell(1) \/ OnFilterCell(2)
               \/ (queryActiveRow = queryRowOrderBy /\ queryActiveCol = 0)
               \/ (queryActiveRow = queryRowButtons /\ queryActiveCol = 0) ->
                  /\ queryActiveRow' = queryActiveRow
                  /\ queryActiveCol' = queryActiveCol + 1
            [] OTHER -> TRUE]_vars

\* "next field" went from the value cell of the first of two filters to the
\* field cell of the second
C26_Witness ==
    /\ lastRan = <<H("queryNextField")>>
    /\ queryModalOpen
    /\ Len(queryFilters) = 2
    /\ queryActiveRow = queryRowFilters
    /\ queryActiveCol = 4

\* C27: moving left from column 0 of a row puts the cursor on the last column
\* of that same row: from the field cell of a filter on the value cell of
\* that same filter, from the first column of orderBy and of the buttons on
\* their second column, and on limit, which has one column, it stays
C27_LeftWrapsInRow ==
    [][QueryKeyRan("queryMoveLeft") =>
          /\ OnFilterCell(0) =>
                /\ queryActiveRow' = queryRowFilters
                /\ queryActiveCol' = queryActiveCol + 3
          /\ (queryActiveRow \in {queryRowOrderBy, queryRowButtons}
                /\ queryActiveCol = 0) =>
                /\ queryActiveRow' = queryActiveRow
                /\ queryActiveCol' = 1
          /\ queryActiveRow = queryRowLimit =>
                /\ queryActiveRow' = queryRowLimit
                /\ queryActiveCol' = 0]_vars

(***************************************************************************)
(* Extending the selection                                                 *)
(***************************************************************************)

\* selectMoveDown ran in select mode on the tree and moved the cursor one
\* row down, the anchor and the filtered rows staying as they were; the
\* rows have not changed since the selection was made either: every selected
\* index is still a document row
ExtendedDown ==
    /\ selectMode /\ currentColumn = "tree"
    /\ \A idx \in selectedDocs :
          /\ idx < Len(getFilteredTreeNodes(G))
          /\ At(getFilteredTreeNodes(G), idx).Type = "document"
    /\ lastRan' = <<H("selectMoveDown")>>
    /\ selectedTreeIdx' = selectedTreeIdx + 1
    /\ selectStartIdx' = selectStartIdx
    /\ getFilteredTreeNodes(G)' = getFilteredTreeNodes(G)

\* C28: with the anchor and the filtered rows unchanged, extending the
\* selection from cursor k to cursor k+1 removes a row from the selected set
\* only if the row is outside the new range, from the smaller to the larger
\* of the anchor and k+1
C28_ExtendKeepsRange ==
    [][ExtendedDown =>
          \A idx \in selectedDocs \ selectedDocs' :
              \/ idx < Min(selectStartIdx', selectedTreeIdx')
              \/ idx > Max(selectStartIdx', selectedTreeIdx')]_vars

\* the cursor came down towards the anchor on the last row: the row it left
\* is not selected any more, the anchor is
C28_Witness ==
    /\ lastRan = <<H("selectMoveDown")>>
    /\ selectMode /\ currentColumn = "tree"
    /\ selectStartIdx = 2
    /\ selectedTreeIdx = 1
    /\ selectedDocs = {2}

(***************************************************************************)
(* The batch of select mode and the documents fetched before               *)
(***************************************************************************)

\* doFetchSelectedDocs ran in select mode with rows selected
BatchStarted ==
    /\ selectMode /\ selectedDocs # {}
    /\ lastRan' = <<H("doFetchSelectedDocs")>>

\* the paths of the selected rows
SelectedPaths ==
    LET filtered == getFilteredTreeNodes(G) IN
    {At(filtered, idx).Path :
        idx \in {i \in selectedDocs :
                    i < Len(filtered) /\ At(filtered, i).Type = "document"}}

\* paths for which GetDocument has returned successfully: those of the cache
\* and the document on display, which selectTreeNode has fetched
FetchedPaths ==
    DOMAIN docCache
    \cup {At(treeNodes, i).Path :
            i \in {k \in 0..(Len(treeNodes) - 1) :
                      /\ currentDocData # Nil
                      /\ At(treeNodes, k).Type = "document"
                      /\ At(treeNodes, k).Path = currentDocPath}}

\* the combined documents a batch has collected when doFetchSelectedDocs
\* returns or waits for its fetches
BatchCombined ==
    IF loop'.pc = "doFetchSelectedDocs" THEN loop'.combined
    ELSE IF currentDocData' # Nil /\ currentDocData'[1].kind = "combined"
    THEN currentDocData'[1].docs
    ELSE EmptyMap

\* C29: a batch of select mode issues no GetDocument for a path for which
\* GetDocument has returned successfully before, whichever action fetched it,
\* and takes the data of such a path from the cache
C29_BatchReusesFetched ==
    [][BatchStarted =>
          /\ \A i \in 1..Len(tasks') :
                tasks'[i].kind = "fetchSelected"
                    => tasks'[i].docPath \notin FetchedPaths
          /\ \A p \in SelectedPaths \cap DOMAIN docCache :
                /\ p \in DOMAIN BatchCombined
                /\ BatchCombined[p] = docCache[p]]_vars

(***************************************************************************)
(* The batch of select mode when fetches fail: from the batch of the rows  *)
(* c/a and c/b, issued and waiting for its fetches.                        *)
(***************************************************************************)
\* the batches: what the cache held when the batch was issued, and the order
\* in which the rest is fetched
Batches ==
    {<<{}, <<<<"c", "a">>, <<"c", "b">>>>>>,
     <<{}, <<<<"c", "b">>, <<"c", "a">>>>>>,
     <<{<<"c", "a">>}, <<<<"c", "b">>>>>>}

\* the data of cached documents
CachedDocs(cached) == [p \in cached |-> DocFields(p)]

\* the log after the entries of the batches: if c/a is cached, those of a
\* batch of c/a alone that succeeded, and the entry of the batch that waits
BatchLog(history, cached, toFetch) ==
    LET Log(h, command, status) ==
            logCommand([commandHistory |-> h], command, status).commandHistory
        before == IF cached = {} THEN history
                  ELSE Log(Log(history, <<"Fetching documents", 1>>, "running"),
                           <<"Loaded documents", 1>>, "success")
    IN Log(before, <<"Fetching documents", Len(toFetch)>>, "running")

\* v on c/a, a batch of c/a alone if c/a is cached, the cursor down to c/b
\* and Space: the batch waits for its fetches
BatchPending(cached, toFetch) ==
    [DocumentOpen
        EXCEPT !.commandHistory = BatchLog(@, cached, toFetch),
               !.docCache = IF cached = {} THEN @ ELSE CachedDocs(cached),
               !.currentDocData =
                   IF cached = {} THEN @
                   ELSE Some(Combined(CachedDocs(cached))),
               !.currentDocPath =
                   IF cached = {} THEN @
                   ELSE SelectedText(Cardinality(cached)),
               !.cachedDetailsDocPath =
                   IF cached = {} THEN @
                   ELSE Some(SelectedText(Cardinality(cached))),
               !.selectMode = TRUE, !.selectedTreeIdx = 2,
               !.selectedDocs = {0, 2},
               !.tasks = [i \in 1..Len(toFetch) |->
                            [kind |-> "fetchSelected", pc |-> "GetDocument",
                             idx |-> i, docPath |-> toFetch[i],
                             fresh |-> FALSE]],
               !.loop = [pc |-> "doFetchSelectedDocs",
                         combined |-> CachedDocs(cached),
                         toFetch |-> toFetch,
                         results |-> [i \in 1..Len(toFetch) |-> ""]]]

InitBatch ==
    \E batch \in Batches : InitFrom(BatchPending(batch[1], batch[2]))

NextBatch ==
    \/ DoToggleSelectMode
    \/ SelectMoveUp
    \/ SelectMoveDown
    \/ DoFetchSelectedDocs
    \/ GoroutineStep
    \/ LoopUpdate
    \/ DoFetchSelectedDocsJoin

SpecBatch == InitBatch /\ [][NextBatch]_vars

\* wg.Wait() returned and doFetchSelectedDocs ran to its end
BatchJoined == loop.pc = "doFetchSelectedDocs" /\ loop'.pc = "idle"

\* the paths of the batch whose fetch failed, and those whose fetch succeeded
BatchPaths(outcome) ==
    {loop.toFetch[i] : i \in {k \in DOMAIN loop.toFetch :
                                loop.results[k] = outcome}}

\* the documents of the batch that were cached or fetched successfully
BatchLoaded == DOMAIN loop.combined \cup BatchPaths("ok")

\* the entries the end of the batch appends: one for each failed fetch and
\* one for the documents loaded, if there are any
BatchEntries ==
    LET count == Cardinality(BatchPaths("error"))
                 + (IF BatchLoaded # {} THEN 1 ELSE 0)
    IN (Len(commandHistory') - count + 1)..Len(commandHistory')

\* C30: when fetches of a batch fail, the combined result on display holds
\* exactly the selected documents that were cached or fetched successfully,
\* however many of the other fetches failed, and each failed path has one
\* error entry of its own among the entries the batch appends to the log
C30_PartialFailure ==
    [][(BatchJoined /\ BatchPaths("error") # {}) =>
          /\ BatchLoaded # {} =>
                /\ BatchLoaded = SelectedPaths \ BatchPaths("error")
                /\ currentDocData' =
                       Some(Combined([p \in BatchLoaded |-> DocFields(p)]))
                /\ currentDocPath' = SelectedText(Cardinality(BatchLoaded))
          /\ \A p \in BatchPaths("error") :
                Cardinality({k \in BatchEntries :
                                commandHistory'[k] =
                                    [command |-> <<"Error fetching", p>>,
                                     status |-> "error"]}) = 1]_vars

\* the fetch of c/b failed and that of c/a succeeded: c/a alone is on display
\* and the log ends with the error for c/b and the one document loaded
C30_Witness ==
    /\ loop.pc = "idle"
    /\ selectMode /\ selectedDocs = {0, 2}
    /\ currentDocData = Some(Combined(CachedDocs({<<"c", "a">>})))
    /\ DOMAIN docCache = {<<"c", "a">>}
    /\ Len(commandHistory) >= 2
    /\ commandHistory[Len(commandHistory) - 1] =
           [command |-> <<"Error fetching", <<"c", "b">>>>, status |-> "error"]
    /\ commandHistory[Len(commandHistory)] =
           [command |-> <<"Loaded documents", 1>>, status |-> "success"]

\* the document on display or the cache changes in this step
BatchVisible ==
    \/ docCache' # docCache
    \/ currentDocData' # currentDocData
    \/ currentDocPath' # currentDocPath

\* C31: a batch changes the document on display and the cache in one step,
\* taken when every fetch of the batch has returned; while the batch waits no
\* key handler runs, so that no state with a part of the batch merged is seen
C31_BatchMergesOnce ==
    [][loop.pc = "doFetchSelectedDocs" =>
          /\ lastRan' = << >>
          /\ BatchVisible =>
                /\ BatchJoined
                /\ \A i \in DOMAIN loop.results : loop.results[i] # ""
                /\ tasks = << >>
                /\ DOMAIN docCache' = DOMAIN docCache \cup BatchPaths("ok")]_vars

\* both fetches of the batch returned and both documents are on display and
\* in the cache
C31_Witness ==
    /\ loop.pc = "idle"
    /\ selectMode /\ selectedDocs = {0, 2}
    /\ DOMAIN docCache = {<<"c", "a">>, <<"c", "b">>}
    /\ currentDocData =
           Some(Combined(CachedDocs({<<"c", "a">>, <<"c", "b">>})))
    /\ lastRan = << >>

(***************************************************************************)
(* The order in which results take effect: from two collections selected   *)
(* one after the other, both fetches outstanding.                          *)
(***************************************************************************)
\* the collection selected first and the one selected second, with the row
\* of the second
SelectionOrders == {<<<<"c">>, <<"d">>, 1>>, <<<<"d">>, <<"c">>, 0>>}

\* Space on the first collection, the cursor moved, Space on the second
TwoSelections(first, second, row) ==
    [logCommand(logCommand(ProjectOpen, <<"ListDocuments", first>>, "running"),
                <<"ListDocuments", second>>, "running")
        EXCEPT !.selectedCollectionIdx = row,
               !.currentCollection = second,
               !.tasks = << [kind |-> "selectCollection",
                             pc |-> "ListDocuments", name |-> first,
                             fresh |-> FALSE],
                            [kind |-> "selectCollection",
                             pc |-> "ListDocuments", name |-> second,
                             fresh |-> FALSE] >>]

InitOrder ==
    \E order \in SelectionOrders :
        InitFrom(TwoSelections(order[1], order[2], order[3]))

NextOrder ==
    \/ DoCursorUp
    \/ DoCursorDown
    \/ DoSpace
    \/ GoroutineStep
    \/ LoopUpdate

SpecOrder == InitOrder /\ [][NextOrder]_vars

\* the queued updates, whatever user action they are observed for
Queued(queue) == [i \in DOMAIN queue |-> [queue[i] EXCEPT !.fresh = FALSE]]

\* a fetch completed in this step: its update went to the end of the queue
Completed ==
    /\ Len(updates') = Len(updates) + 1
    /\ Queued(SubSeq(updates', 1, Len(updates))) = Queued(updates)
    /\ \E i \in 1..Len(tasks) : Len(tasks') = Len(tasks) - 1

\* the oldest queued update was applied in this step
Applied == updates # << >> /\ Queued(updates') = Queued(Tail(updates))

ExpandPending ==
    [logCommand(DocumentOpen, <<"ListDocuments", <<"c", "a", "o">>>>, "running")
        EXCEPT !.selectedTreeIdx = 1,
               !.tasks = << [kind |-> "expandCollection",
                             pc |-> "ListDocuments",
                             nodePath |-> <<"c", "a", "o">>,
                             nodeName |-> <<"o">>, nodeDepth |-> 1,
                             nodeIdx |-> 1, fresh |-> FALSE] >>]

InitStale == InitFrom(ExpandPending)

NextStale ==
    \/ DoColumnLeft
    \/ DoCursorUp
    \/ DoCursorDown
    \/ DoSpace
    \/ GoroutineStep
    \/ LoopUpdate

SpecStale == InitStale /\ [][NextStale]_vars

\* the children are in the list of nodes, one after the other
HoldsChildren(nodes, children) ==
    \E k \in 0..(Len(nodes) - Len(children)) :
        SubSeq(nodes, k + 1, k + Len(children)) = children

\* C33: a fetch that completed successfully has its result applied when it
\* arrives, whatever the user did in between: after the update of an
\* expansion the fetched children are in the tree
C33_NoResultDropped ==
    [][Applied =>
          LET u == Head(updates) IN
          /\ (u.kind = "applyExpand" /\ Len(u.docs) > 0) =>
                HoldsChildren(treeNodes', DocNodes(u.docs, u.nodeDepth + 1))
          /\ (u.kind = "applyDocument" /\ ~u.err /\ Len(u.subcols) > 0) =>
                HoldsChildren(treeNodes', SubNodes(u.subcols, u.nodeDepth + 1))]_vars

\* the children of the update follow the node of the path the fetch was
\* issued for, one level below it
SplicedUnder(nodes, nodePath, children) ==
    \E i \in 1..Len(nodes) :
        /\ nodes[i].Path = nodePath
        /\ i + Len(children) <= Len(nodes)
        /\ \A k \in 1..Len(children) :
              /\ nodes[i + k].Path = children[k].Path
              /\ nodes[i + k].Depth = nodes[i].Depth + 1

\* C35: when the fetch of an expansion completes, its children are inserted
\* right after the node whose path the fetch was issued for and have that
\* node's depth plus one, also when the tree changed while the fetch was
\* outstanding
C35_ChildrenFollowTheirNode ==
    [][Applied =>
          LET u == Head(updates) IN
          /\ (u.kind = "applyExpand" /\ Len(u.docs) > 0) =>
                SplicedUnder(treeNodes', u.nodePath,
                             DocNodes(u.docs, u.nodeDepth + 1))
          /\ (u.kind = "applyDocument" /\ ~u.err /\ Len(u.subcols) > 0) =>
                SplicedUnder(treeNodes', u.nodePath,
                             SubNodes(u.subcols, u.nodeDepth + 1))]_vars

\* C36: the children of an expansion are spliced in only under a node that
\* is not expanded at that moment, and no path is in the tree twice, also
\* when the same collapsed node is expanded twice before the first fetch
\* completes
C36_NoChildTwice ==
    /\ [][(Applied /\ Head(updates).kind \in {"applyExpand", "applyDocument"}
             /\ treeNodes' # treeNodes) =>
             /\ Head(updates).nodeIdx < Len(treeNodes)
             /\ ~At(treeNodes, Head(updates).nodeIdx).Expanded]_vars
    /\ [](\A i, j \in 1..Len(treeNodes) :
             i # j => treeNodes[i].Path # treeNodes[j].Path)

(***************************************************************************)
(* The command log                                                         *)
(***************************************************************************)
\* the log after a step holds the newest entries of the log before it and of
\* the appended entries, in their order of arrival: the entries that are
\* gone are the oldest, and none is gone unless the log is full
LogAppended(appended) ==
    LET kept == Len(commandHistory') - appended
        evicted == Len(commandHistory) - kept
    IN /\ kept >= 0 /\ evicted >= 0
       /\ evicted > 0 => Len(commandHistory') = LogCapacity
       /\ SubSeq(commandHistory', 1, kept)
              = SubSeq(commandHistory, evicted + 1, Len(commandHistory))

\* C34: the command log never holds more than its capacity of 10 entries;
\* an entry appended to a full log evicts the oldest entry and no other, and
\* the entries that stay keep their order of arrival
C34_LogIsBounded ==
    /\ [](Len(commandHistory) <= LogCapacity)
    /\ [][\E appended \in 0..MaxLogged : LogAppended(appended)]_vars
    /\ [][(Len(commandHistory) = LogCapacity
             /\ Len(commandHistory') = LogCapacity
             /\ commandHistory' # commandHistory
             /\ LogAppended(1))
            => Tail(commandHistory)
                   = SubSeq(commandHistory', 1, LogCapacity - 1)]_vars

\* the log is full and its oldest entry, that of the start, has been evicted:
\* the oldest is now the second entry of the run
C34_Witness ==
    /\ Len(commandHistory) = LogCapacity
    /\ commandHistory[1] = [command |-> <<"auth">>, status |-> "success"]
    /\ commandHistory[LogCapacity].status = "running"
    /\ lastRan = <<H("doSpace")>>

(***************************************************************************)
(* Editing the text of a filter: from / pressed on the tree panel, with    *)
(* texts longer than those the other specifications type.                  *)
(***************************************************************************)
\* the longest text typed into the filter input
MaxEditLen == 3

\* a key of the filter input
EditStep(h, g2) ==
    /\ running
    /\ loop.pc = "idle"
    /\ <<h>> \in Dispatch[resolveContext(G)]
    /\ LET g3 == [Finish(G, g2) EXCEPT !.lastRan = <<h>>] IN
       Len(g3.filterInputText) <= MaxEditLen /\ Commit(g3)

EditInsertChar ==
    \E ch \in FilterChars :
        EditStep(HC("makeFilterCharAction", ch),
                 makeFilterCharAction(Stale(G), ch))
EditBackspace ==
    EditStep(H("doFilterBackspace"), doFilterBackspace(Stale(G)))
EditCursorLeft == EditStep(H("filterCursorLeft"), filterCursorLeft(Stale(G)))
EditCursorRight ==
    EditStep(H("filterCursorRight"), filterCursorRight(Stale(G)))

\* / was pressed on the tree: the filter input is open and empty
InitEdit ==
    InitFrom([DocumentOpen EXCEPT !.filterInputActive = TRUE,
                                  !.filterInputPanel = "tree"])

NextEdit == EditInsertChar \/ EditBackspace \/ EditCursorLeft \/ EditCursorRight

SpecEdit == InitEdit /\ [][NextEdit]_vars

\* the text of the filter input before and after the cursor
BeforeCursor == SubSeq(filterInputText, 1, filterCursorPos)
AfterCursor ==
    SubSeq(filterInputText, filterCursorPos + 1, Len(filterInputText))

\* C37: while a filter is edited the cursor is between 0 and the length of
\* the text, after any inserts, backspaces and moves of the cursor; an insert
\* puts the character at the cursor and a backspace removes the character
\* before the cursor, the rest of the text staying as it is, and the cursor
\* follows
C37_FilterEditing ==
    /\ [](filterInputActive =>
             (0 <= filterCursorPos /\ filterCursorPos <= Len(filterInputText)))
    /\ [][\A ch \in FilterChars :
             (filterInputActive /\ lastRan' = <<HC("makeFilterCharAction", ch)>>)
             => /\ filterInputText' = BeforeCursor \o <<ch>> \o AfterCursor
                /\ filterCursorPos' = filterCursorPos + 1]_vars
    /\ [][(filterInputActive /\ lastRan' = <<H("doFilterBackspace")>>) =>
             IF filterCursorPos > 0
             THEN /\ filterInputText' =
                        SubSeq(filterInputText, 1, filterCursorPos - 1)
                        \o AfterCursor
                  /\ filterCursorPos' = filterCursorPos - 1
             ELSE /\ filterInputText' = filterInputText
                  /\ filterCursorPos' = filterCursorPos]_vars

\* a backspace behind the first of three characters: the first is gone, the
\* cursor is at the start and the two others are left
C37_Witness ==
    /\ filterInputActive
    /\ lastRan = <<H("doFilterBackspace")>>
    /\ filterInputText = <<"b", "o">>
    /\ filterCursorPos = 0

(***************************************************************************)
(* Leaving an edit or the option popup with Esc                            *)
(***************************************************************************)
\* the draft and the cursor of the grid
DraftAndCursor ==
    <<queryFilters, queryOrderBy, queryOrderDir, queryLimit,
      queryActiveRow, queryActiveCol>>

\* Esc was typed into the input view of the field that is edited
EditCancelled ==
    /\ queryModalOpen /\ queryEditMode
    /\ \E content \in QueryEditContents \cup QueryLimitContents :
          lastRan' = <<[fn |-> "queryInputEditor", ch |-> "Esc",
                        content |-> content]>>

\* Esc was pressed in the option popup
PopupCancelled ==
    /\ queryModalOpen /\ querySelectOpen
    /\ lastRan' = <<H("querySelectClose")>>

NextSpace ==
    \/ DoToggleSelectMode
    \/ DoColumnLeft
    \/ DoColumnRight
    \/ DoSpace
    \/ DoFetchSelectedDocs
    \/ GoroutineStep
    \/ LoopUpdate
    \/ DoFetchSelectedDocsJoin

SpecSpace == Init /\ [][NextSpace]_vars

\* Space was pressed in select mode with the focus on the projects or the
\* collections panel
SpaceOffTree ==
    /\ selectMode
    /\ currentColumn \in {"projects", "collections"}
    /\ lastRan' = <<H("doFetchSelectedDocs")>>

\* C39: select mode changes what Space does only while the tree panel has
\* the focus: with select mode on and the focus on the projects or the
\* collections panel, Space does what it does on that panel without select
\* mode, the selection of the project or of the collection, and starts no
\* batch fetch of the selected documents
C39_SpaceOffTree ==
    [][SpaceOffTree =>
          /\ loop'.pc = "idle"
          /\ \A i \in 1..Len(tasks') : tasks'[i].kind # "fetchSelected"
          /\ Len(tasks') = Len(tasks) + 1
          /\ tasks'[Len(tasks')].kind =
                IF currentColumn = "projects" THEN "selectProject"
                ELSE "selectCollection"]_vars

(***************************************************************************)
(* The command-log modal: the keys pressed while it is open (SpecModal).   *)
(***************************************************************************)
DoToggleModal == KeyStep(H("doToggleModal"), doToggleModal(Stale(G)))
BlockAction == KeyStep(H("blockAction"), blockAction(Stale(G)))

NextModal ==
    \/ DoToggleModal
    \/ DoEscape
    \/ BlockAction
    \/ DoEnter
    \/ DoFilterBackspace
    \/ DoColumnLeft
    \/ GoroutineStep
    \/ LoopUpdate

SpecModal == Init /\ [][NextModal]_vars

\* a key is pressed while the command-log modal is the active context
KeyInModal ==
    /\ resolveContext(G) = ContextModal
    /\ lastRan' # << >>

\* the focus, the cursors, the tree, the filters and the selection
BehindModal ==
    <<currentColumn, selectedProjectIndex, selectedCollectionIdx,
      selectedTreeIdx, treeNodes, filterVars, selVars>>

\* C40: while the command-log modal is open no key press changes the focus,
\* the cursors, the tree, the filters or the selection, and none issues a
\* store call (no goroutine is started, the loop makes no call of its own):
\* the keys act on the modal only
C40_ModalBlocksKeys ==
    [][KeyInModal =>
          /\ BehindModal' = BehindModal
          /\ tasks' = tasks
          /\ loop' = loop]_vars

=============================================================================
